---- MODULE Spec2Model ----
(***************************************************************************)
(* Model of the Magnolia documentation search: the browser-side engine     *)
(* (MagnoliaSearch: load, _buildInvertedIndex, _tokenize, search,          *)
(* _findCandidates, _scoreDocument, _fuzzyMatch, _levenshtein) and the     *)
(* indexer's section chunker (MagnoliaDocsIndexer.createLlmChunks).        *)
(*                                                                         *)
(* Text is a sequence of one-character strings.  Scores are kept in        *)
(* hundredths (score * 100) so that the 0.5 occurrence bonus and the 1.2   *)
(* and 1.1 boosts stay integers.                                           *)
(***************************************************************************)
EXTENDS Integers, Sequences, FiniteSets, TLC

(***************************************************************************)
(* Characters and strings                                                  *)
(***************************************************************************)
LowerChars ==
  { "a", "b", "c", "d", "e", "f", "g", "h", "i", "j", "k", "l",
    "m", "n", "o", "p", "q", "r", "s", "t", "u", "v", "w", "x",
    "y", "z" }
UpperChars ==
  { "A", "B", "C", "D", "E", "F", "G", "H", "I", "J", "K", "L",
    "M", "N", "O", "P", "Q", "R", "S", "T", "U", "V", "W", "X",
    "Y", "Z" }
DigitChars ==
  { "0", "1", "2", "3", "4", "5", "6", "7", "8", "9" }
SpaceChars == {" "}
OtherChars == {".", "!", "-", "_"}

\* String.prototype.toLowerCase, one character
toLowerChar(c) ==
  CASE c = "A" -> "a" [] c = "B" -> "b" [] c = "C" -> "c" []
       c = "D" -> "d" [] c = "E" -> "e" [] c = "F" -> "f" []
       c = "G" -> "g" [] c = "H" -> "h" [] c = "I" -> "i" []
       c = "J" -> "j" [] c = "K" -> "k" [] c = "L" -> "l" []
       c = "M" -> "m" [] c = "N" -> "n" [] c = "O" -> "o" []
       c = "P" -> "p" [] c = "Q" -> "q" [] c = "R" -> "r" []
       c = "S" -> "s" [] c = "T" -> "t" [] c = "U" -> "u" []
       c = "V" -> "v" [] c = "W" -> "w" [] c = "X" -> "x" []
       c = "Y" -> "y" [] c = "Z" -> "z" []
       OTHER -> c

toLowerCase(s) == [i \in 1..Len(s) |-> toLowerChar(s[i])]

RECURSIVE trimStart(_)
trimStart(s) ==
  IF s # <<>> /\ Head(s) \in SpaceChars THEN trimStart(Tail(s)) ELSE s

RECURSIVE trimEnd(_)
trimEnd(s) ==
  IF s # <<>> /\ s[Len(s)] \in SpaceChars
    THEN trimEnd(SubSeq(s, 1, Len(s) - 1)) ELSE s

\* true of every value; testing it on the value a loop carries makes the
\* value be computed before the next iteration starts
evaluated(v) == v = v

\* String.prototype.trim
trim(s) == trimEnd(trimStart(s))

\* String.prototype.startsWith
startsWith(s, p) == Len(p) <= Len(s) /\ SubSeq(s, 1, Len(p)) = p

\* String.prototype.includes
includes(s, p) ==
  \E i \in 1..(Len(s) - Len(p) + 1) : SubSeq(s, i, i + Len(p) - 1) = p

\* number of matches of a global RegExp built from a plain alphanumeric
\* term: non-overlapping occurrences, scanned left to right
RECURSIVE matchCount(_, _)
matchCount(s, p) ==
  IF Len(s) < Len(p) THEN 0
  ELSE IF SubSeq(s, 1, Len(p)) = p
    THEN 1 + matchCount(SubSeq(s, Len(p) + 1, Len(s)), p)
    ELSE matchCount(Tail(s), p)

\* Array.prototype.join(' ') over strings
RECURSIVE joinSpace(_)
joinSpace(parts) ==
  IF parts = <<>> THEN <<>>
  ELSE IF Len(parts) = 1 THEN parts[1]
  ELSE parts[1] \o <<" ">> \o joinSpace(Tail(parts))

\* Array.prototype.filter(Boolean) over strings: drops the empty ones
RECURSIVE filterNonEmpty(_)
filterNonEmpty(parts) ==
  IF parts = <<>> THEN <<>>
  ELSE IF Head(parts) = <<>> THEN filterNonEmpty(Tail(parts))
  ELSE <<Head(parts)>> \o filterNonEmpty(Tail(parts))

(***************************************************************************)
(* MagnoliaSearch._tokenize                                                *)
(***************************************************************************)
\* .replace(/[^a-z0-9\s]/g, ' '), one character
replaceNonAlnum(c) ==
  IF c \in LowerChars \cup DigitChars \cup SpaceChars THEN c ELSE " "

\* .split(/\s+/): pieces between whitespace runs (an empty piece at either
\* end when the text starts or ends with whitespace)
RECURSIVE splitSpaces(_, _, _)
splitSpaces(s, cur, inRun) ==
  IF s = <<>> THEN <<cur>>
  ELSE IF Head(s) \in SpaceChars
    THEN IF inRun THEN splitSpaces(Tail(s), cur, TRUE)
         ELSE <<cur>> \o splitSpaces(Tail(s), <<>>, TRUE)
    ELSE splitSpaces(Tail(s), Append(cur, Head(s)), FALSE)

RECURSIVE filterMinLen(_, _)
filterMinLen(words, n) ==
  IF words = <<>> THEN <<>>
  ELSE IF Len(Head(words)) >= n
    THEN <<Head(words)>> \o filterMinLen(Tail(words), n)
    ELSE filterMinLen(Tail(words), n)

\* _tokenize keeping the words of one character
tokenizeKeepShort(text) ==
  LET lowered  == toLowerCase(text)
      replaced == [i \in 1..Len(lowered) |-> replaceNonAlnum(lowered[i])]
  IN  filterMinLen(splitSpaces(replaced, <<>>, FALSE), 1)

tokenize(text) ==
  LET lowered  == toLowerCase(text)
      replaced == [i \in 1..Len(lowered) |-> replaceNonAlnum(lowered[i])]
  IN  filterMinLen(splitSpaces(replaced, <<>>, FALSE), 2)

(***************************************************************************)
(* MagnoliaDocsIndexer.finalizeSection / createSearchRecord: the records   *)
(* the engine loads                                                        *)
(***************************************************************************)
PreviewLen == 150

\* contentText.slice(0, 150) + (contentText.length > 150 ? '...' : '')
contentPreview(contentText) ==
  IF Len(contentText) > PreviewLen
    THEN SubSeq(contentText, 1, PreviewLen) \o <<".", ".", ".">>
    ELSE contentText

\* a missing heading (null) is the empty text; url is the pair of the page
\* URL and the section anchor
createSearchRecord(title, heading, headingLevel, content, category, version, breadcrumb, url) ==
  [ url          |-> url,
    title        |-> title,
    heading      |-> heading,
    headingLevel |-> headingLevel,
    content      |-> contentPreview(content),
    fullContent  |-> content,
    category     |-> category,
    version      |-> version,
    breadcrumb   |-> breadcrumb,
    searchText   |-> toLowerCase(joinSpace(filterNonEmpty(
                       <<title, heading, content>>))) ]

\* a JSON null where a record is expected
NullDoc == [isNull |-> TRUE]
isNullDoc(doc) == "isNull" \in DOMAIN doc

(***************************************************************************)
(* MagnoliaSearch._buildInvertedIndex.  The map is a sequence of entries   *)
(* [term, docs] in Object.keys order: keys that are canonical array        *)
(* indices first, ascending, then the other keys in insertion order.       *)
(***************************************************************************)
ReservedWords ==
  { <<"c", "o", "n", "s", "t", "r", "u", "c", "t", "o", "r">>,
    <<"_", "_", "p", "r", "o", "t", "o", "_", "_">>,
    <<"p", "r", "o", "t", "o", "t", "y", "p", "e">> }

digitValue(c) ==
  CASE c = "0" -> 0 [] c = "1" -> 1 [] c = "2" -> 2 [] c = "3" -> 3 []
       c = "4" -> 4 [] c = "5" -> 5 [] c = "6" -> 6 [] c = "7" -> 7 []
       c = "8" -> 8 [] c = "9" -> 9

RECURSIVE numericValue(_)
numericValue(w) ==
  IF w = <<>> THEN 0
  ELSE numericValue(SubSeq(w, 1, Len(w) - 1)) * 10 + digitValue(w[Len(w)])

\* a property key that is a canonical array index ("17", not "01")
isIndexKey(w) ==
  /\ w # <<>>
  /\ \A i \in 1..Len(w) : w[i] \in DigitChars
  /\ (Len(w) = 1 \/ w[1] # "0")
  /\ Len(w) <= 9

hasKey(entries, w) == \E i \in 1..Len(entries) : entries[i].term = w

\* invertedIndex[w], for a key that is present
lookup(entries, w) ==
  entries[CHOOSE i \in 1..Len(entries) : entries[i].term = w].docs

\* inv[word] = [] for a new key, then push of docIndex when absent
RECURSIVE insertEntry(_, _)
insertEntry(entries, e) ==
  IF entries = <<>> THEN <<e>>
  ELSE IF /\ isIndexKey(e.term)
          /\ \/ ~isIndexKey(Head(entries).term)
             \/ numericValue(Head(entries).term) > numericValue(e.term)
    THEN <<e>> \o entries
    ELSE <<Head(entries)>> \o insertEntry(Tail(entries), e)

inSeq(x, s) == \E i \in 1..Len(s) : s[i] = x

\* the loop body without the test for the reserved words
addWordUnguarded(entries, w, docIndex) ==
  IF ~hasKey(entries, w)
    THEN insertEntry(entries, [term |-> w, docs |-> <<docIndex>>])
  ELSE [i \in 1..Len(entries) |->
          IF entries[i].term = w /\ ~inSeq(docIndex, entries[i].docs)
            THEN [entries[i] EXCEPT !.docs = Append(@, docIndex)]
            ELSE entries[i]]

addWord(entries, w, docIndex) ==
  IF w \in ReservedWords THEN entries
  ELSE IF ~hasKey(entries, w)
    THEN insertEntry(entries, [term |-> w, docs |-> <<docIndex>>])
  ELSE [i \in 1..Len(entries) |->
          IF entries[i].term = w /\ ~inSeq(docIndex, entries[i].docs)
            THEN [entries[i] EXCEPT !.docs = Append(@, docIndex)]
            ELSE entries[i]]

RECURSIVE addWords(_, _, _)
addWords(entries, words, docIndex) ==
  IF words = <<>> THEN entries
  ELSE LET next == addWord(entries, Head(words), docIndex)
       IN  IF evaluated(next) THEN addWords(next, Tail(words), docIndex)
           ELSE <<>>

\* the loop over this.index; reading _searchText of a null entry throws and
\* leaves the entries made so far
RECURSIVE buildFrom(_, _, _)
buildFrom(idx, docIndex, entries) ==
  IF docIndex >= Len(idx) THEN [entries |-> entries, threw |-> FALSE]
  ELSE IF isNullDoc(idx[docIndex + 1])
    THEN [entries |-> entries, threw |-> TRUE]
  ELSE LET next == addWords(entries, tokenize(idx[docIndex + 1].searchText),
                           docIndex)
       IN  IF evaluated(next) THEN buildFrom(idx, docIndex + 1, next)
           ELSE [entries |-> <<>>, threw |-> FALSE]

buildInvertedIndex(idx) == buildFrom(idx, 0, <<>>)

(***************************************************************************)
(* MagnoliaSearch._levenshtein and _fuzzyMatch                             *)
(***************************************************************************)
min2(x, y) == IF x <= y THEN x ELSE y
max2(x, y) == IF x >= y THEN x ELSE y
abs(x) == IF x < 0 THEN -x ELSE x

\* row i of the matrix (i = position in b), from row i - 1
levRow(prev, a, b, i) ==
  LET row[j \in 0..Len(a)] ==
        IF j = 0 THEN i
        ELSE IF b[i] = a[j] THEN prev[j - 1]
        ELSE min2(prev[j - 1] + 1, min2(row[j - 1] + 1, prev[j] + 1))
  IN  [j \in 0..Len(a) |-> row[j]]

RECURSIVE levRows(_, _, _)
levRows(a, b, i) ==
  IF i = 0 THEN [j \in 0..Len(a) |-> j]
  ELSE levRow(levRows(a, b, i - 1), a, b, i)

\* matrix[b.length][a.length]
levenshtein(a, b) == levRows(a, b, Len(b))[Len(a)]

\* config.fuzzyThreshold = 0.4, in tenths
FuzzyThresholdTenths == 4

\* 1 - distance / maxLength >= 1 - 0.4, i.e. 10 * distance <= 4 * maxLength;
\* for two empty terms 0 / 0 is NaN and the comparison is false
\* _fuzzyMatch dividing by the length of its first argument
fuzzyMatchByFirstLength(a, b) ==
  IF abs(Len(a) - Len(b)) > 2 THEN FALSE
  ELSE IF max2(Len(a), Len(b)) = 0 THEN FALSE
  ELSE 10 * levenshtein(a, b) <= FuzzyThresholdTenths * Len(a)

fuzzyMatch(a, b) ==
  IF abs(Len(a) - Len(b)) > 2 THEN FALSE
  ELSE IF max2(Len(a), Len(b)) = 0 THEN FALSE
  ELSE 10 * levenshtein(a, b) <= FuzzyThresholdTenths * max2(Len(a), Len(b))

(***************************************************************************)
(* MagnoliaSearch._findCandidates: a Set of positions, in insertion order  *)
(***************************************************************************)
FuzzyMinLen == 4

\* candidates.add(idx) for every idx of docs
RECURSIVE addAll(_, _)
addAll(cands, docs) ==
  IF docs = <<>> THEN cands
  ELSE LET next == IF inSeq(Head(docs), cands) THEN cands
                   ELSE Append(cands, Head(docs))
       IN  IF evaluated(next) THEN addAll(next, Tail(docs)) ELSE <<>>

RECURSIVE addPrefixMatches(_, _, _, _)
addPrefixMatches(cands, entries, k, term) ==
  IF k > Len(entries) THEN cands
  ELSE LET next == IF \/ startsWith(entries[k].term, term)
                      \/ startsWith(term, entries[k].term)
                     THEN addAll(cands, entries[k].docs) ELSE cands
       IN  IF evaluated(next) THEN addPrefixMatches(next, entries, k + 1, term)
           ELSE <<>>

RECURSIVE addFuzzyMatches(_, _, _, _)
addFuzzyMatches(cands, entries, k, term) ==
  IF k > Len(entries) THEN cands
  ELSE LET next == IF fuzzyMatch(term, entries[k].term)
                     THEN addAll(cands, entries[k].docs) ELSE cands
       IN  IF evaluated(next) THEN addFuzzyMatches(next, entries, k + 1, term)
           ELSE <<>>

\* the exact and prefix matches only
candidatesForTermNoFuzzy(cands, entries, term) ==
  LET exact  == IF hasKey(entries, term)
                  THEN addAll(cands, lookup(entries, term)) ELSE cands
  IN  addPrefixMatches(exact, entries, 1, term)

candidatesForTerm(cands, entries, term) ==
  LET exact  == IF hasKey(entries, term)
                  THEN addAll(cands, lookup(entries, term)) ELSE cands
      prefix == addPrefixMatches(exact, entries, 1, term)
  IN  IF Len(term) >= FuzzyMinLen
        THEN addFuzzyMatches(prefix, entries, 1, term) ELSE prefix

RECURSIVE candidatesFrom(_, _, _)
candidatesFrom(cands, entries, queryTerms) ==
  IF queryTerms = <<>> THEN cands
  ELSE LET next == candidatesForTerm(cands, entries, Head(queryTerms))
       IN  IF evaluated(next) THEN candidatesFrom(next, entries, Tail(queryTerms))
           ELSE <<>>

findCandidates(entries, queryTerms) == candidatesFrom(<<>>, entries, queryTerms)

(***************************************************************************)
(* MagnoliaSearch._scoreDocument, in hundredths of a point                 *)
(***************************************************************************)
TitlePhraseBonus   == 10000
HeadingPhraseBonus == 8000
WeightTitle        == 1000
WeightHeading      == 800
WeightContent      == 300
WeightBreadcrumb   == 200
TitleStartBonus    == 1500
OccurrenceStep     == 50
OccurrenceCap      == 500
ShortTitleLen      == 30

\* the per-term score with the short-title boost applied to the term
termScoreBoosted(title, heading, content, breadcrumb, term) ==
  LET points ==
          (IF includes(title, term)
             THEN WeightTitle
                    + (IF startsWith(title, term) THEN TitleStartBonus ELSE 0)
             ELSE 0)
        + (IF heading # <<>> /\ includes(heading, term)
             THEN WeightHeading ELSE 0)
        + (IF includes(content, term)
             THEN WeightContent
                    + min2(matchCount(content, term) * OccurrenceStep,
                           OccurrenceCap)
             ELSE 0)
        + (IF includes(breadcrumb, term) THEN WeightBreadcrumb ELSE 0)
  IN  IF Len(title) < ShortTitleLen THEN (points * 12) \div 10 ELSE points

termScore(title, heading, content, breadcrumb, term) ==
    (IF includes(title, term)
       THEN WeightTitle + (IF startsWith(title, term) THEN TitleStartBonus ELSE 0)
       ELSE 0)
  + (IF heading # <<>> /\ includes(heading, term) THEN WeightHeading ELSE 0)
  + (IF includes(content, term)
       THEN WeightContent
              + min2(matchCount(content, term) * OccurrenceStep, OccurrenceCap)
       ELSE 0)
  + (IF includes(breadcrumb, term) THEN WeightBreadcrumb ELSE 0)

RECURSIVE sumTermScores(_, _, _, _, _)
sumTermScores(title, heading, content, breadcrumb, queryTerms) ==
  IF queryTerms = <<>> THEN 0
  ELSE termScore(title, heading, content, breadcrumb, Head(queryTerms))
         + sumTermScores(title, heading, content, breadcrumb, Tail(queryTerms))

\* score *= 1.2
boostShortTitle(title, score) ==
  IF Len(title) < ShortTitleLen THEN (score * 12) \div 10 ELSE score

\* score *= 1.1
boostHeadingLevel(doc, score) ==
  IF doc.headingLevel # 0 /\ doc.headingLevel <= 2
    THEN (score * 11) \div 10 ELSE score

scoreDocument(doc, queryTerms, fullQuery) ==
  LET title      == toLowerCase(doc.title)
      heading    == toLowerCase(doc.heading)
      content    == toLowerCase(IF doc.fullContent # <<>> THEN doc.fullContent
                                ELSE doc.content)
      breadcrumb == toLowerCase(joinSpace(doc.breadcrumb))
      phrase     == (IF includes(title, fullQuery) THEN TitlePhraseBonus ELSE 0)
                  + (IF includes(heading, fullQuery) THEN HeadingPhraseBonus ELSE 0)
      terms      == sumTermScores(title, heading, content, breadcrumb, queryTerms)
  IN  boostHeadingLevel(doc, boostShortTitle(title, phrase + terms))

(***************************************************************************)
(* The search-index files the engine may be served, built by               *)
(* createSearchRecord, and the queries typed into it                       *)
(***************************************************************************)
TitleInstall == <<"I", "n", "s", "t", "a", "l", "l", " ", "C", "L", "I">>
TitleJava == <<"J", "a", "v", "a", " ", "t", "i", "p", "s">>
TitleLong ==
  <<"M", "a", "v", "e", "n", " ", "m", "o", "d", "u", "l", "e", "s", " ",
    "f", "o", "r", " ", "M", "a", "g", "n", "o", "l", "i", "a", " ", "C",
    "L", "I", " ", "t", "o", "o", "l", "s">>
HeadingPrereq == <<"P", "r", "e", "r", "e", "q">>
HeadingJava == <<"J", "a", "v", "a">>
HeadingMaven == <<"M", "a", "v", "e", "n">>
ContentJava17 ==
  <<"J", "a", "v", "a", " ", "1", "7", " ", "a", "n", "d", " ", "M", "a",
    "v", "e", "n", ".">>
ContentUse == <<"u", "s", "e", " ", "t", "h", "e", " ", "C", "L", "I", "!">>
ContentJavaOnce == <<"j", "a", "v", "a", " ", "s", "e", "t", "u", "p">>
ContentJavaTwice ==
  <<"j", "a", "v", "a", " ", "a", "n", "d", " ", "J", "a", "v", "a">>
ContentJavaThrice ==
  <<"j", "a", "v", "a", " ", "J", "a", "v", "a", " ", "j", "a", "v", "a">>
ContentMaven ==
  <<"M", "a", "v", "e", "n", " ", "m", "o", "d", "u", "l", "e", "s">>
ContentProto ==
  <<"c", "o", "n", "s", "t", "r", "u", "c", "t", "o", "r", " ", "_", "_",
    "p", "r", "o", "t", "o", "_", "_", " ", "p", "r", "o", "t", "o", "t",
    "y", "p", "e", " ", "J", "a", "v", "a">>
CrumbDocs == <<"D", "o", "c", "s">>
CrumbCli == <<"C", "L", "I">>
CrumbJava == <<"J", "a", "v", "a">>
QueryJava == <<"j", "a", "v", "a">>
QueryJav == <<"j", "a", "v">>
QueryJavaa == <<"j", "a", "v", "a", "a">>
QueryX == <<"x">>
QueryJava17 == <<" ", "J", "a", "v", "a", " ", "1", "7", " ">>
QueryMavenCli == <<"m", "a", "v", "e", "n", " ", "c", "l", "i">>
QueryMissing == <<>>
QueryAB == <<"a", " ", "b">>
QueryBangs == <<"!", "!">>
QuerySpaceX == <<" ", "x", " ">>
QueryMaevn == <<"m", "a", "e", "v", "n">>

RecPrereq ==
  createSearchRecord(TitleInstall, HeadingPrereq, 2, ContentJava17,
                     "Magnolia 6.2", "6.2", <<CrumbDocs, CrumbCli>>,
                     <<"/product-docs/6.2/cli.html", "prereq">>)
RecIntro ==
  createSearchRecord(TitleInstall, <<>>, 0, ContentUse,
                     "Magnolia 6.2", "6.2", <<CrumbDocs, CrumbCli>>,
                     <<"/product-docs/6.2/cli.html", "">>)
RecJava ==
  createSearchRecord(TitleJava, HeadingJava, 1, ContentJavaThrice,
                     "Magnolia 6.3", "6.3", <<CrumbDocs, CrumbJava>>,
                     <<"/product-docs/6.3/java.html", "java">>)
RecMaven ==
  createSearchRecord(TitleLong, HeadingMaven, 3, ContentMaven,
                     "Modules", "modules", <<CrumbDocs>>,
                     <<"/modules/maven.html", "maven">>)

RecProto ==
  createSearchRecord(TitleJava, HeadingJava, 3, ContentProto,
                     "Modules", "modules", <<CrumbDocs>>,
                     <<"/modules/proto.html", "java">>)

SmallIndex == <<RecPrereq, RecIntro, RecJava, RecMaven, RecProto>>

\* a file whose second entry is null: building the inverted index throws
BrokenIndex == <<RecPrereq, NullDoc, RecJava>>

\* number of records of the large file: more than config.maxResults
BigIndexLen == 22

bigRecord(i) ==
  createSearchRecord(
    IF i % 5 = 0 THEN TitleInstall ELSE TitleJava,
    IF i % 2 = 0 THEN HeadingJava ELSE <<>>,
    IF i % 2 = 0 THEN 1 + (i % 4) ELSE 0,
    CASE i % 3 = 0 -> ContentJavaOnce
      [] i % 3 = 1 -> ContentJavaTwice
      [] OTHER     -> ContentJavaThrice,
    IF i % 2 = 0 THEN "Magnolia 6.2" ELSE "Magnolia 6.3",
    IF i % 2 = 0 THEN "6.2" ELSE "6.3",
    <<CrumbDocs>>,
    <<"/big.html", i>>)

BigIndex == [i \in 1..BigIndexLen |-> bigRecord(i)]

Bodies == {SmallIndex, BrokenIndex, BigIndex}

Queries == {QueryJava, QueryJav, QueryJavaa, QueryX, QueryJava17,
            QueryMavenCli, QueryMissing, QueryAB, QueryBangs, QuerySpaceX,
            QueryMaevn}

(***************************************************************************)
(* MagnoliaSearch.search                                                   *)
(***************************************************************************)
MinQueryLength    == 2
DefaultMaxResults == 20

\* an option of the options object: absent, or given with a value
NoText   == [given |-> FALSE, value |-> ""]
NoNumber == [given |-> FALSE, value |-> 0]
Text(v)   == [given |-> TRUE, value |-> v]
Number(n) == [given |-> TRUE, value |-> n]

\* options.version || null: absent and '' both give null
orNull(opt) == IF opt.given /\ opt.value # "" THEN opt ELSE NoText

\* options.maxResults || this.config.maxResults
maxResultsOf(opt) ==
  IF opt.given /\ opt.value # 0 THEN opt.value ELSE DefaultMaxResults

\* the two filter tests of the map callback: FALSE when it returns null
passesFiltersNoVersion(doc, filters) ==
  ~(filters.category.given /\ doc.category # filters.category.value)

passesFilters(doc, filters) ==
  /\ ~(filters.version.given /\ doc.version # filters.version.value)
  /\ ~(filters.category.given /\ doc.category # filters.category.value)

\* candidates.map(...).filter(Boolean)
RECURSIVE scoreCandidates(_, _, _, _, _)
scoreCandidates(idx, cands, filters, queryTerms, query) ==
  IF cands = <<>> THEN <<>>
  ELSE LET doc  == idx[Head(cands) + 1]
           rest == scoreCandidates(idx, Tail(cands), filters, queryTerms, query)
       IN  IF passesFilters(doc, filters)
             THEN <<[doc |-> doc,
                     score |-> scoreDocument(doc, queryTerms, query)]>> \o rest
             ELSE rest

\* scored.sort((a, b) => b.score - a.score): a stable sort, descending
RECURSIVE insertByScore(_, _)
insertByScore(sorted, item) ==
  IF sorted = <<>> THEN <<item>>
  ELSE IF Head(sorted).score >= item.score
    THEN <<Head(sorted)>> \o insertByScore(Tail(sorted), item)
    ELSE <<item>> \o sorted

RECURSIVE sortByScoreFrom(_, _)
sortByScoreFrom(sorted, items) ==
  IF items = <<>> THEN sorted
  ELSE LET next == insertByScore(sorted, Head(items))
       IN  IF evaluated(next) THEN sortByScoreFrom(next, Tail(items)) ELSE <<>>

sortUnsorted(items) == items

sortByScore(items) == sortByScoreFrom(<<>>, items)

\* Array.prototype.slice(0, n)
slice0(items, n) ==
  IF n >= 0 THEN SubSeq(items, 1, min2(n, Len(items)))
  ELSE SubSeq(items, 1, max2(Len(items) + n, 0))

\* {...item.doc, _score: item.score}
withScore(items) ==
  [i \in 1..Len(items) |-> [doc |-> items[i].doc, score |-> items[i].score]]

\* search(query, options) on an engine in state (isLoaded, idx, entries)
search(isLoaded, idx, entries, query, options) ==
  IF ~isLoaded THEN <<>>
  ELSE
    LET q == toLowerCase(trim(query))
    IN  IF Len(q) < MinQueryLength THEN <<>>
        ELSE
          LET filters    == [version  |-> orNull(options.version),
                             category |-> orNull(options.category)]
              maxResults == maxResultsOf(options.maxResults)
              queryTerms == tokenize(q)
          IN  IF queryTerms = <<>> THEN <<>>
              ELSE
                LET candidates == findCandidates(entries, queryTerms)
                    scored     == scoreCandidates(idx, candidates, filters,
                                                  queryTerms, q)
                IN  withScore(slice0(sortByScore(scored), maxResults))

(***************************************************************************)
(* MagnoliaSearch.getCategories, getVersions and highlight                 *)
(***************************************************************************)
\* the category and version strings of the index files, in the order of
\* their UTF-16 code units, which is the order of Array.prototype.sort()
StringOrder ==
  <<"6.2", "6.3", "Magnolia 6.2", "Magnolia 6.3", "Modules", "modules">>

codeUnitRank(str) ==
  CHOOSE i \in 1..Len(StringOrder) : StringOrder[i] = str

RECURSIVE insertByRank(_, _)
insertByRank(sorted, str) ==
  IF sorted = <<>> THEN <<str>>
  ELSE IF codeUnitRank(Head(sorted)) <= codeUnitRank(str)
    THEN <<Head(sorted)>> \o insertByRank(Tail(sorted), str)
    ELSE <<str>> \o sorted

RECURSIVE sortStrings(_)
sortStrings(strs) ==
  IF strs = <<>> THEN <<>>
  ELSE insertByRank(sortStrings(SubSeq(strs, 1, Len(strs) - 1)),
                    strs[Len(strs)])

\* [...new Set(this.index.map(doc => doc[field]))].sort(); reading the field
\* of a null entry throws
sortedFieldValues(isLoaded, idx, field) ==
  IF ~isLoaded THEN [value |-> <<>>, threw |-> FALSE]
  ELSE IF \E i \in 1..Len(idx) : isNullDoc(idx[i])
    THEN [value |-> <<>>, threw |-> TRUE]
  ELSE [value |-> sortStrings(addAll(<<>>, [i \in 1..Len(idx) |->
                                              idx[i][field]])),
        threw |-> FALSE]

getCategories(isLoaded, idx) == sortedFieldValues(isLoaded, idx, "category")

getVersions(isLoaded, idx) == sortedFieldValues(isLoaded, idx, "version")

\* the default tag of highlight
TagMark == <<"m", "a", "r", "k">>

\* result.replace(new RegExp('(' + term + ')', 'gi'), '<tag>$1</tag>'):
\* every match, scanned left to right without overlap, ignoring case, is
\* wrapped as it stands in the text
RECURSIVE wrapMatches(_, _, _)
wrapMatches(text, term, tag) ==
  IF Len(text) < Len(term) THEN text
  ELSE IF toLowerCase(SubSeq(text, 1, Len(term))) = term
    THEN <<"<">> \o tag \o <<">">> \o SubSeq(text, 1, Len(term))
           \o <<"<", "/">> \o tag \o <<">">>
           \o wrapMatches(SubSeq(text, Len(term) + 1, Len(text)), term, tag)
    ELSE <<Head(text)>> \o wrapMatches(Tail(text), term, tag)

\* terms.forEach(term => { result = result.replace(...) })
RECURSIVE highlightTerms(_, _, _)
highlightTerms(result, terms, tag) ==
  IF terms = <<>> THEN result
  ELSE highlightTerms(wrapMatches(result, Head(terms), tag), Tail(terms), tag)

highlight(text, query, tag) ==
  IF text = <<>> \/ query = <<>> THEN text
  ELSE highlightTerms(text, tokenize(query), tag)

(***************************************************************************)
(* MagnoliaDocsIndexer.estimateTokens.  A text is given by the four counts *)
(* the estimator takes from it: whitespace-separated words, characters of  *)
(* the class [#*_`\[\]()], [Code] markers and [Table] markers.             *)
(***************************************************************************)
CodeBlockTokens == 50
TableTokens     == 20

Profile(words, markdownChars, codeBlocks, tables) ==
  [words |-> words, markdownChars |-> markdownChars,
   codeBlocks |-> codeBlocks, tables |-> tables]

\* an empty or missing text
EmptyText == Profile(0, 0, 0, 0)

\* the counts of the concatenation of two texts separated by whitespace
concatText(t, u) ==
  Profile(t.words + u.words, t.markdownChars + u.markdownChars,
          t.codeBlocks + u.codeBlocks, t.tables + u.tables)

\* Math.ceil(n * 0.1)
ceilTenth(n) == (n + 9) \div 10

\* Math.ceil(n * 1.3)
ceilScaled(n) == (13 * n + 9) \div 10

estimateTokens(text) ==
  ceilScaled(text.words + ceilTenth(text.markdownChars)
               + text.codeBlocks * CodeBlockTokens + text.tables * TableTokens)

\* a section without heading has the empty text as heading
estimateSectionTokens(section) ==
  estimateTokens(section.heading) + estimateTokens(section.content)

(***************************************************************************)
(* MagnoliaDocsIndexer.createLlmChunks and the chunk builders              *)
(***************************************************************************)
MAX_CHUNK_TOKENS == 1500

\* the value of a field that is undefined
undefined == -1

\* md5(url), truncated to 12 hex digits
baseId == "md5(url)"

min4(level) == IF level + 1 < 4 THEN level + 1 ELSE 4

\* buildChunkContent: the header, then for each section its heading line
\* ('#' repeated min(headingLevel + 1, 4) times, a space, the heading) and
\* its content
RECURSIVE buildChunkContent(_, _)
buildChunkContent(header, sections) ==
  IF sections = <<>> THEN header
  ELSE LET section == Head(sections)
           headingLine == IF section.heading # EmptyText
                            THEN concatText(
                                   Profile(1, min4(section.headingLevel), 0, 0),
                                   section.heading)
                            ELSE EmptyText
       IN  buildChunkContent(
             concatText(header, concatText(headingLine, section.content)),
             Tail(sections))

buildSingleChunk(header, sections, chunkIndex, chunkTotal) ==
  [ id                |-> IF chunkTotal = 1 THEN <<baseId>>
                          ELSE <<baseId, chunkIndex>>,
    sections          |-> sections,
    tokenEstimate     |-> estimateTokens(buildChunkContent(header, sections)),
    chunkIndex        |-> IF chunkTotal = 1 THEN undefined ELSE chunkIndex,
    chunkTotal        |-> IF chunkTotal = 1 THEN undefined ELSE chunkTotal,
    sectionStartIndex |-> undefined,
    sectionEndIndex   |-> undefined ]

\* buildChunkFromSections with sectionEndIndex one past the last section
buildChunkFromSectionsEndPast(header, sections, chunkIndex, startSectionIndex, endSectionIndex) ==
  [ id                |-> <<baseId, chunkIndex>>,
    sections          |-> sections,
    tokenEstimate     |-> estimateTokens(buildChunkContent(header, sections)),
    chunkIndex        |-> chunkIndex,
    chunkTotal        |-> undefined,
    sectionStartIndex |-> startSectionIndex,
    sectionEndIndex   |-> startSectionIndex + Len(sections) ]

\* buildChunkFromSections numbering the chunks from 1
buildChunkFromSectionsOneBased(header, sections, chunkIndex, startSectionIndex, endSectionIndex) ==
  [ id                |-> <<baseId, chunkIndex + 1>>,
    sections          |-> sections,
    tokenEstimate     |-> estimateTokens(buildChunkContent(header, sections)),
    chunkIndex        |-> chunkIndex + 1,
    chunkTotal        |-> undefined,
    sectionStartIndex |-> startSectionIndex,
    sectionEndIndex   |-> endSectionIndex ]

buildChunkFromSections(header, sections, chunkIndex, startSectionIndex, endSectionIndex) ==
  [ id                |-> <<baseId, chunkIndex>>,
    sections          |-> sections,
    tokenEstimate     |-> estimateTokens(buildChunkContent(header, sections)),
    chunkIndex        |-> chunkIndex,
    chunkTotal        |-> undefined,
    sectionStartIndex |-> startSectionIndex,
    sectionEndIndex   |-> endSectionIndex ]

RECURSIVE sumSectionTokens(_)
sumSectionTokens(sections) ==
  IF sections = <<>> THEN 0
  ELSE estimateSectionTokens(Head(sections)) + sumSectionTokens(Tail(sections))

\* the for loop of the split path from section i (0-based) on, then the
\* push of the last chunk
RECURSIVE splitLoop(_, _, _, _, _)
splitLoop(header, sections, i, chunks, currentChunk) ==
  IF i >= Len(sections)
    THEN IF Len(currentChunk.sections) > 0
           THEN Append(chunks,
                       buildChunkFromSections(header, currentChunk.sections,
                                              Len(chunks),
                                              currentChunk.startIndex,
                                              Len(sections) - 1))
           ELSE chunks
  ELSE
    LET section       == sections[i + 1]
        sectionTokens == estimateSectionTokens(section)
    IN  IF /\ currentChunk.tokens + sectionTokens > MAX_CHUNK_TOKENS
           /\ Len(currentChunk.sections) > 0
          THEN splitLoop(header, sections, i + 1,
                         Append(chunks,
                                buildChunkFromSections(header,
                                                       currentChunk.sections,
                                                       Len(chunks),
                                                       currentChunk.startIndex,
                                                       i - 1)),
                         [sections   |-> <<section>>,
                          tokens     |-> estimateTokens(header) + sectionTokens,
                          startIndex |-> i])
          ELSE splitLoop(header, sections, i + 1, chunks,
                         [sections   |-> Append(currentChunk.sections, section),
                          tokens     |-> currentChunk.tokens + sectionTokens,
                          startIndex |-> currentChunk.startIndex])

\* the chunkTotal pass left out
setChunkTotalSkipped(chunks) == chunks

\* chunks.forEach(chunk => { chunk.chunkTotal = totalChunks; })
setChunkTotal(chunks) ==
  [c \in 1..Len(chunks) |-> [chunks[c] EXCEPT !.chunkTotal = Len(chunks)]]

\* createLlmChunks taking the single-chunk path only below the budget
createLlmChunksBelowBudget(header, sections) ==
  LET headerTokens == estimateTokens(header)
      totalTokens  == headerTokens + sumSectionTokens(sections)
  IN  IF totalTokens < MAX_CHUNK_TOKENS
        THEN <<buildSingleChunk(header, sections, 0, 1)>>
        ELSE setChunkTotal(
               splitLoop(header, sections, 0, <<>>,
                         [sections   |-> <<>>,
                          tokens     |-> headerTokens,
                          startIndex |-> 0]))

\* createLlmChunks starting the first chunk of the split path without the
\* header tokens
createLlmChunksHeaderFree(header, sections) ==
  LET headerTokens == estimateTokens(header)
      totalTokens  == headerTokens + sumSectionTokens(sections)
  IN  IF totalTokens <= MAX_CHUNK_TOKENS
        THEN <<buildSingleChunk(header, sections, 0, 1)>>
        ELSE setChunkTotal(
               splitLoop(header, sections, 0, <<>>,
                         [sections   |-> <<>>,
                          tokens     |-> 0,
                          startIndex |-> 0]))

createLlmChunks(header, sections) ==
  LET headerTokens == estimateTokens(header)
      totalTokens  == headerTokens + sumSectionTokens(sections)
  IN  IF totalTokens <= MAX_CHUNK_TOKENS
        THEN <<buildSingleChunk(header, sections, 0, 1)>>
        ELSE setChunkTotal(
               splitLoop(header, sections, 0, <<>>,
                         [sections   |-> <<>>,
                          tokens     |-> headerTokens,
                          startIndex |-> 0]))

(***************************************************************************)
(* MagnoliaDocsIndexer.pathToUrl, categorizeUrl, shouldSkip,               *)
(* extractMetadata, buildChunkHeader and processFile; categorizeUrl of     *)
(* utils.js, which the markdown generator uses                             *)
(***************************************************************************)
BaseUrl ==
  <<"h", "t", "t", "p", "s", ":", "/", "/", "d", "o", "c", "s", ".", "m",
    "a", "g", "n", "o", "l", "i", "a", "-", "c", "m", "s", ".", "c", "o",
    "m">>
IndexHtml == <<"i", "n", "d", "e", "x", ".", "h", "t", "m", "l">>
DotHtml == <<".", "h", "t", "m", "l">>

\* String.prototype.endsWith
endsWith(s, p) ==
  Len(p) <= Len(s) /\ SubSeq(s, Len(s) - Len(p) + 1, Len(s)) = p

pathToUrl(relativePath) ==
  LET slashed  == [i \in 1..Len(relativePath) |->
                     IF relativePath[i] = "\\" THEN "/" ELSE relativePath[i]]
      noIndex  == IF endsWith(slashed, IndexHtml)
                    THEN SubSeq(slashed, 1, Len(slashed) - Len(IndexHtml))
                    ELSE slashed
      noHtml   == IF endsWith(noIndex, DotHtml)
                    THEN Append(SubSeq(noIndex, 1, Len(noIndex) - Len(DotHtml)),
                                "/")
                    ELSE noIndex
      trailing == IF endsWith(noHtml, <<"/">>) THEN noHtml
                  ELSE Append(noHtml, "/")
      leading  == IF startsWith(trailing, <<"/">>) THEN trailing
                  ELSE <<"/">> \o trailing
  IN  BaseUrl \o leading

PatternDocs62 ==
  <<"/", "p", "r", "o", "d", "u", "c", "t", "-", "d", "o", "c", "s", "/",
    "6", ".", "2", "/">>
PatternDocs63 ==
  <<"/", "p", "r", "o", "d", "u", "c", "t", "-", "d", "o", "c", "s", "/",
    "6", ".", "3", "/">>
PatternDocs ==
  <<"/", "p", "r", "o", "d", "u", "c", "t", "-", "d", "o", "c", "s", "/">>
PatternPaas == <<"/", "p", "a", "a", "s", "/">>
PatternCockpit == <<"/", "c", "o", "c", "k", "p", "i", "t", "/">>
PatternSupport == <<"/", "s", "u", "p", "p", "o", "r", "t", "/">>
PatternCli ==
  <<"/", "m", "a", "g", "n", "o", "l", "i", "a", "-", "c", "l", "i", "/">>
PatternHeadless == <<"/", "h", "e", "a", "d", "l", "e", "s", "s", "/">>

\* MagnoliaDocsIndexer.categorizeUrl
categorizeUrl(url) ==
  IF includes(url, PatternDocs62)
    THEN [category |-> "Magnolia 6.2", version |-> "6.2"]
  ELSE IF includes(url, PatternDocs63)
    THEN [category |-> "Magnolia 6.3", version |-> "6.3"]
  ELSE IF includes(url, PatternDocs)
    THEN [category |-> "Magnolia 6.4", version |-> "latest"]
  ELSE IF includes(url, PatternPaas) \/ includes(url, PatternCockpit)
    THEN [category |-> "DX Cloud", version |-> "cloud"]
  ELSE IF includes(url, PatternSupport)
    THEN [category |-> "Support", version |-> "general"]
  ELSE IF includes(url, PatternCli)
    THEN [category |-> "CLI", version |-> "general"]
  ELSE IF includes(url, PatternHeadless)
    THEN [category |-> "Headless", version |-> "general"]
  ELSE [category |-> "Modules", version |-> "modules"]

\* categorizeUrl of utils.js testing the cloud patterns first
utilsCategorizeUrlCloudFirst(url) ==
  IF includes(url, PatternPaas) \/ includes(url, PatternCockpit)
    THEN [category |-> "DX Cloud", version |-> "cloud"]
  ELSE IF includes(url, PatternDocs62)
    THEN [category |-> "Magnolia 6.2", version |-> "6.2"]
  ELSE IF includes(url, PatternDocs63)
    THEN [category |-> "Magnolia 6.3", version |-> "6.3"]
  ELSE IF includes(url, PatternDocs)
    THEN [category |-> "Magnolia 6.4", version |-> "latest"]
  ELSE IF includes(url, PatternSupport)
    THEN [category |-> "Support", version |-> "general"]
  ELSE IF includes(url, PatternCli)
    THEN [category |-> "CLI", version |-> "general"]
  ELSE IF includes(url, PatternHeadless)
    THEN [category |-> "Headless", version |-> "general"]
  ELSE [category |-> "Modules", version |-> "modules"]

\* categorizeUrl of utils.js
utilsCategorizeUrl(url) ==
  IF includes(url, PatternDocs62)
    THEN [category |-> "Magnolia 6.2", version |-> "6.2"]
  ELSE IF includes(url, PatternDocs63)
    THEN [category |-> "Magnolia 6.3", version |-> "6.3"]
  ELSE IF includes(url, PatternDocs)
    THEN [category |-> "Magnolia 6.4", version |-> "latest"]
  ELSE IF includes(url, PatternPaas) \/ includes(url, PatternCockpit)
    THEN [category |-> "DX Cloud", version |-> "cloud"]
  ELSE IF includes(url, PatternSupport)
    THEN [category |-> "Support", version |-> "general"]
  ELSE IF includes(url, PatternCli)
    THEN [category |-> "CLI", version |-> "general"]
  ELSE IF includes(url, PatternHeadless)
    THEN [category |-> "Headless", version |-> "general"]
  ELSE [category |-> "Modules", version |-> "modules"]

Text404 == <<"4", "0", "4">>
TextRedirect == <<"R", "e", "d", "i", "r", "e", "c", "t">>

(***************************************************************************)
(* MagnoliaDocsIndexer.extractSections, finalizeSection and slugify.  A    *)
(* node is an element the walk visits: [tagName, text, id], text being    *)
(* the text of the element (of a table: its cells joined by ' | ') and id *)
(* the id attribute, empty when there is none.                             *)
(***************************************************************************)
\* the markers extractSections puts before the text of a code block and of
\* a table, which estimateTokens counts
CodeMarker == <<"[", "C", "o", "d", "e", "]">>
TableMarker == <<"[", "T", "a", "b", "l", "e", "]">>

HeadingTags == {"h1", "h2", "h3", "h4"}

\* parseInt(tagName.charAt(1))
headingLevelOf(tagName) ==
  CASE tagName = "h1" -> 1 [] tagName = "h2" -> 2
    [] tagName = "h3" -> 3 [] tagName = "h4" -> 4

\* .replace(/[^a-z0-9]+/g, '-'): every run of other characters becomes one
\* hyphen
RECURSIVE hyphenateRuns(_, _)
hyphenateRuns(text, inRun) ==
  IF text = <<>> THEN <<>>
  ELSE IF Head(text) \in LowerChars \cup DigitChars
    THEN <<Head(text)>> \o hyphenateRuns(Tail(text), FALSE)
  ELSE IF inRun THEN hyphenateRuns(Tail(text), TRUE)
  ELSE <<"-">> \o hyphenateRuns(Tail(text), TRUE)

\* .replace(/^-|-$/g, ''): one hyphen at the start and one at the end
stripHyphens(text) ==
  LET start == IF text # <<>> /\ Head(text) = "-" THEN Tail(text) ELSE text
  IN  IF start # <<>> /\ start[Len(start)] = "-"
        THEN SubSeq(start, 1, Len(start) - 1) ELSE start

slugify(text) == stripHyphens(hyphenateRuns(toLowerCase(text), FALSE))

\* the least length above which a fragment is kept: text.length > 10
FragmentLength == 10
CodeSlice == 200
TableSlice == 300

\* the text of a content node as the walk renders it
nodeText(node) ==
  IF node.tagName = "pre"
    THEN CodeMarker \o <<" ">> \o slice0(trim(node.text), CodeSlice)
  ELSE IF node.tagName = "table"
    THEN TableMarker \o <<" ">> \o slice0(node.text, TableSlice)
  ELSE trim(node.text)

finalizeSection(section) ==
  [heading      |-> section.heading,
   headingLevel |-> section.headingLevel,
   content      |-> trim(joinSpace(section.content)),
   anchor       |-> section.anchor]

\* the walk over the elements from node i on, then the push of the last
\* section
RECURSIVE walkNodes(_, _, _, _)
walkNodes(nodes, i, sections, currentSection) ==
  IF i > Len(nodes)
    THEN IF Len(currentSection.content) > 0
           THEN Append(sections, finalizeSection(currentSection))
           ELSE sections
  ELSE
    LET node == nodes[i]
    IN  IF node.tagName \in HeadingTags
          THEN LET headingText == trim(node.text)
               IN  walkNodes(nodes, i + 1,
                     IF Len(currentSection.content) > 0
                       THEN Append(sections, finalizeSection(currentSection))
                       ELSE sections,
                     [heading      |-> headingText,
                      headingLevel |-> headingLevelOf(node.tagName),
                      anchor       |-> IF node.id # <<>> THEN node.id
                                       ELSE slugify(headingText),
                      content      |-> <<>>])
          ELSE walkNodes(nodes, i + 1, sections,
                 IF Len(nodeText(node)) > FragmentLength
                   THEN [currentSection EXCEPT
                           !.content = Append(@, nodeText(node))]
                   ELSE currentSection)

\* a missing heading (null) is the empty text
extractSections(nodes) ==
  walkNodes(nodes, 1, <<>>,
            [heading |-> <<>>, headingLevel |-> 0, anchor |-> <<>>,
             content |-> <<>>])

\* the least length of the main content of a page that is indexed
MinContentLength == 100

\* the text of the content area: the headings and contents of the sections
RECURSIVE mainText(_)
mainText(sections) ==
  IF sections = <<>> THEN <<>>
  ELSE Head(sections).heading \o <<" ">> \o Head(sections).content
         \o <<" ">> \o mainText(Tail(sections))

\* the page's <title> and its h1 carry the same text
shouldSkip(pageContent) ==
  \/ pageContent.title = <<>>
  \/ includes(pageContent.title, Text404)
  \/ includes(pageContent.title, TextRedirect)
  \/ Len(trim(mainText(pageContent.sections))) < MinContentLength

extractMetadata(pageContent, url) ==
  [title       |-> pageContent.title,
   category    |-> categorizeUrl(url).category,
   version     |-> categorizeUrl(url).version,
   breadcrumb  |-> pageContent.breadcrumb,
   description |-> pageContent.description]

\* the characters estimateTokens counts as markdown
\* (the grave accent is written "backtick")
MarkdownChars == {"#", "*", "_", "backtick", "[", "]", "(", ")"}

\* the four counts estimateTokens takes from a text
profileOf(text) ==
  LET positions == 1..Len(text)
      isSpace(i) == text[i] \in {" ", "\n"}
  IN  Profile(
        Cardinality({i \in positions :
                       ~isSpace(i) /\ (i = 1 \/ isSpace(i - 1))}),
        Cardinality({i \in positions : text[i] \in MarkdownChars}),
        Cardinality({i \in positions :
                       /\ text[i] = "["
                       /\ i + Len(CodeMarker) - 1 <= Len(text)
                       /\ SubSeq(text, i, i + Len(CodeMarker) - 1)
                            = CodeMarker}),
        Cardinality({i \in positions :
                       /\ text[i] = "["
                       /\ i + Len(TableMarker) - 1 <= Len(text)
                       /\ SubSeq(text, i, i + Len(TableMarker) - 1)
                            = TableMarker}))

\* Array.prototype.join(' > ')
RECURSIVE joinArrow(_)
joinArrow(parts) ==
  IF parts = <<>> THEN <<>>
  ELSE IF Len(parts) = 1 THEN parts[1]
  ELSE parts[1] \o <<" ", ">", " ">> \o joinArrow(Tail(parts))

\* number of words of a category name
categoryWords(category) ==
  IF category \in {"Magnolia 6.2", "Magnolia 6.3", "Magnolia 6.4", "DX Cloud"}
    THEN 2 ELSE 1

\* the counts of the header lines '# title', 'URL: url', 'Category:
\* category', 'Version: version', 'Path: a > b' when there is a
\* breadcrumb, 'Summary: description' when there is a description, '---'
buildChunkHeader(metadata, url) ==
  LET line(label, text) == concatText(Profile(1, 0, 0, 0), profileOf(text))
      titleLine   == concatText(Profile(1, 1, 0, 0), profileOf(metadata.title))
      urlLine     == line("URL:", url)
      categoryLine == Profile(1 + categoryWords(metadata.category), 0, 0, 0)
      versionLine == Profile(2, 0, 0, 0)
      pathLine    == IF metadata.breadcrumb # <<>>
                       THEN line("Path:", joinArrow(metadata.breadcrumb))
                       ELSE EmptyText
      summaryLine == IF metadata.description # <<>>
                       THEN line("Summary:", metadata.description)
                       ELSE EmptyText
      ruleLine    == Profile(1, 0, 0, 0)
  IN  concatText(titleLine, concatText(urlLine, concatText(categoryLine,
        concatText(versionLine, concatText(pathLine,
          concatText(summaryLine, ruleLine))))))

\* the search records of a page, one per section
pageRecords(metadata, sections, url) ==
  [i \in 1..Len(sections) |->
     createSearchRecord(metadata.title, sections[i].heading,
                        sections[i].headingLevel, sections[i].content,
                        metadata.category, metadata.version,
                        metadata.breadcrumb, <<url, sections[i].anchor>>)]

\* the chunks of a page: those createLlmChunks cuts, each with the url,
\* category and version the chunk builders copy from the page
pageChunks(metadata, sections, url) ==
  LET made == createLlmChunks(
                buildChunkHeader(metadata, url),
                [i \in 1..Len(sections) |->
                   [heading      |-> profileOf(sections[i].heading),
                    headingLevel |-> sections[i].headingLevel,
                    content      |-> profileOf(sections[i].content)]])
  IN  [c \in 1..Len(made) |->
         [chunk    |-> made[c],
          url      |-> url,
          category |-> metadata.category,
          version  |-> metadata.version]]

\* processFile(filePath): what it adds to the search index and to the
\* chunks, or that it throws; a file that cannot be read throws before
\* anything is added
processFile(file) ==
  IF ~file.readable
    THEN [threw |-> TRUE, records |-> <<>>, llmChunks |-> <<>>]
  ELSE LET url == pathToUrl(file.path)
       IN  IF shouldSkip(file.content)
             THEN [threw |-> FALSE, records |-> <<>>, llmChunks |-> <<>>]
           ELSE LET metadata == extractMetadata(file.content, url)
                IN  [threw     |-> FALSE,
                     records   |-> pageRecords(metadata, file.content.sections,
                                               url),
                     llmChunks |-> pageChunks(metadata, file.content.sections,
                                              url)]

(***************************************************************************)
(* MagnoliaAI.buildContext.  The context is kept as the list of the chunk  *)
(* contents joined into it, in order; each content is named by the id of   *)
(* its chunk.                                                              *)
(***************************************************************************)
\* config.maxContextTokens
MaxContextTokens == 8000

\* an entry {chunk, score} of the list findRelevantChunks returns
\* a chunk of llm-chunks.json
Chunk(id, tokenEstimate, version) ==
  [id |-> id, title |-> <<"title", id>>, url |-> <<"url", id>>,
   content |-> <<"content", id>>, tokenEstimate |-> tokenEstimate,
   version |-> version, category |-> "Modules"]

\* an entry {chunk, score} of the list findRelevantChunks returns
RankedChunk(id, tokenEstimate) ==
  [chunk |-> Chunk(id, tokenEstimate, "6.2"), score |-> 0]

\* the for loop over chunks from position i on, with its break
RECURSIVE contextLoop(_, _, _, _)
contextLoop(chunks, i, context, totalTokens) ==
  IF i > Len(chunks) THEN [context |-> context, totalTokens |-> totalTokens]
  ELSE IF totalTokens + chunks[i].tokenEstimate > MaxContextTokens
    THEN [context |-> context, totalTokens |-> totalTokens]
  ELSE contextLoop(chunks, i + 1, Append(context, chunks[i].content),
                   totalTokens + chunks[i].tokenEstimate)

\* chunks.map(c => ({title: c.title, url: c.url}))
sourcesOf(chunks) ==
  [i \in 1..Len(chunks) |-> [title |-> chunks[i].title, url |-> chunks[i].url]]

\* buildContext passing over a chunk that does not fit (continue for break)
buildContextSkipping(relevantChunks) ==
  LET chunks == [i \in 1..Len(relevantChunks) |-> relevantChunks[i].chunk]
      total[i \in 0..Len(chunks)] ==
        IF i = 0 THEN 0
        ELSE IF total[i - 1] + chunks[i].tokenEstimate > MaxContextTokens
          THEN total[i - 1]
          ELSE total[i - 1] + chunks[i].tokenEstimate
      kept == SelectSeq([i \in 1..Len(chunks) |-> i],
                        LAMBDA i : total[i] # total[i - 1]
                                     \/ chunks[i].tokenEstimate = 0)
  IN  [context       |-> [k \in 1..Len(kept) |-> chunks[kept[k]].content],
       tokenEstimate |-> total[Len(chunks)],
       sources       |-> sourcesOf(chunks)]

buildContext(relevantChunks) ==
  LET chunks == [i \in 1..Len(relevantChunks) |-> relevantChunks[i].chunk]
      looped == contextLoop(chunks, 1, <<>>, 0)
  IN  [context       |-> looped.context,
       tokenEstimate |-> looped.totalTokens,
       sources       |-> sourcesOf(chunks)]

(***************************************************************************)
(* MagnoliaAI.findRelevantChunks.  The score _calculateSimilarity gives a  *)
(* chunk for the question is an input: similarity[i] is the score of chunk *)
(* i, in tenths.                                                           *)
(***************************************************************************)
\* config.maxContextChunks
MaxContextChunks == 5

\* config.minRelevanceScore = 0.3, in tenths
MinRelevanceTenths == 3

\* options.maxChunks || this.config.maxContextChunks
maxChunksOf(opt) ==
  IF opt.given /\ opt.value # 0 THEN opt.value ELSE MaxContextChunks

\* this.chunks.map(...).filter(Boolean)
RECURSIVE scoreChunks(_, _, _, _)
scoreChunks(chunks, similarity, filters, i) ==
  IF i > Len(chunks) THEN <<>>
  ELSE LET rest == scoreChunks(chunks, similarity, filters, i + 1)
       IN  IF passesFilters(chunks[i], filters)
             THEN <<[chunk |-> chunks[i], score |-> similarity[i]]>> \o rest
             ELSE rest

\* .filter(item => item.score >= this.config.minRelevanceScore)
RECURSIVE filterRelevant(_)
filterRelevant(items) ==
  IF items = <<>> THEN <<>>
  ELSE IF Head(items).score >= MinRelevanceTenths
    THEN <<Head(items)>> \o filterRelevant(Tail(items))
    ELSE filterRelevant(Tail(items))

findRelevantChunks(isLoaded, chunks, similarity, maxChunks, filter) ==
  IF ~isLoaded THEN [threw |-> TRUE, value |-> <<>>]
  ELSE [threw |-> FALSE,
        value |-> slice0(filterRelevant(sortByScore(
                           scoreChunks(chunks, similarity,
                                       [version  |-> orNull(filter.version),
                                        category |-> orNull(filter.category)],
                                       1))),
                         maxChunksOf(maxChunks))]

(***************************************************************************)
(* The engine: one MagnoliaSearch instance, its load() calls in flight     *)
(* and the search() call whose caller is running.  Handlers run to         *)
(* completion: while a caller holds the result of search(), no other       *)
(* callback runs.                                                          *)
(***************************************************************************)
\* number of load() calls made on the instance
MaxLoads == 3

VARIABLES
  loaded,         \* this.loaded
  index,          \* this.index
  invertedIndex,  \* this.invertedIndex: [defined, entries]
  loads,          \* per load() call: where it is suspended or how it settled
  fetchCount,     \* fetch(this.indexUrl) requests issued
  onReadyCount,   \* invocations of this.onReady
  call,           \* the call on the engine that has just returned, if any
  page,           \* the page given to createLlmChunks: [header, sections]
  chunks,         \* what createLlmChunks returned for it
  chunkPc,        \* "idle", "start" (page extracted) or "done" (chunks made)
  scoring,        \* two _scoreDocument calls: [pc, docA, docB, query, scoreA, scoreB]
  fuzzy,          \* _fuzzyMatch on two terms, both ways: [pc, a, b, ab, ba, distAB, distBA]
  contextCall,    \* a buildContext call: [pc, relevantChunks, result]
  aiLoaded,       \* MagnoliaAI: this.loaded
  aiChunks,       \* MagnoliaAI: this.chunks
  provider,       \* MagnoliaAI: this.provider
  apiKey,         \* MagnoliaAI: this.apiKey is set (not null)
  askCall,        \* the ask() call: [pc, args, fetches, error, answer]
  relevantCall,   \* a findRelevantChunks call by the page: [pc, wasLoaded, threw, result]
  streamCall,     \* the askStream() generator: [pc, args, frames, events, sources]
  htmlFiles,      \* build(): the files findHtmlFiles returned
  filePos,        \* build(): number of files the loop has gone through
  stats,          \* MagnoliaDocsIndexer: this.stats
  searchIndex,    \* MagnoliaDocsIndexer: this.searchIndex
  llmChunks,      \* MagnoliaDocsIndexer: this.llmChunks
  outputs,        \* what writeOutputs wrote: [written, searchIndex, llmChunks]
  buildPc,        \* build(): "idle", "loop", "resolved" or "rejected"
  extraction,     \* an extractSections call: [pc, nodes, sections]
  isOpen,         \* MagnoliaSearchUI: this.isOpen
  currentFilter,  \* MagnoliaSearchUI: this.currentFilter
  inputValue,     \* value of the input of the modal
  results,        \* innerHTML of the results container: [html, hits]
  debounceTimer,  \* bindEvents: the timer id in debounceTimer, 0 when unset
  timers,         \* the pending timeouts of the page: [id, deadline, value]
  now,            \* the time, in ticks of 50 ms
  uiTrace         \* what the debounced searches did since the last input event

engineVars == <<loaded, index, invertedIndex, loads,
                fetchCount, onReadyCount, call>>

chunkVars == <<page, chunks, chunkPc>>

\* the state of the other components
aiVars == <<aiLoaded, aiChunks, provider, apiKey, askCall, relevantCall,
           streamCall>>

\* the state of the indexer
buildVars == <<htmlFiles, filePos, stats, searchIndex, llmChunks, outputs,
               buildPc, extraction>>

\* the state of the search UI
uiVars == <<isOpen, currentFilter, inputValue, results, debounceTimer, timers,
            now, uiTrace>>

otherVars == <<scoring, fuzzy, contextCall, aiVars, buildVars, uiVars>>

LoadIds == 1..MaxLoads

NoOptions == [version |-> NoText, category |-> NoText, maxResults |-> NoNumber]

NoCall == [op |-> "none", query |-> <<>>, options |-> NoOptions,
           text |-> <<>>, result |-> <<>>, threw |-> FALSE]

\* constructor(options)
EngineInit ==
  /\ loaded = FALSE
  /\ index = <<>>
  /\ invertedIndex = [defined |-> FALSE, entries |-> <<>>]
  /\ loads = [k \in LoadIds |-> [pc |-> "idle", noop |-> FALSE]]
  /\ fetchCount = 0
  /\ onReadyCount = 0
  /\ call = NoCall

\* the indexer has no page in hand
ChunkerIdle ==
  /\ page = [header |-> EmptyText, sections |-> <<>>]
  /\ chunks = <<>>
  /\ chunkPc = "idle"

\* no _scoreDocument call is being looked at
NoScoring == [pc |-> "idle", docA |-> NullDoc, docB |-> NullDoc,
              query |-> <<>>, scoreA |-> 0, scoreB |-> 0]

\* no _fuzzyMatch call is being looked at
NoFuzzy == [pc |-> "idle", a |-> <<>>, b |-> <<>>, ab |-> FALSE, ba |-> FALSE,
            distAB |-> 0, distBA |-> 0]

\* what buildContext returns for no chunk
EmptyContext == [context |-> <<>>, tokenEstimate |-> 0, sources |-> <<>>]

\* no buildContext call is being looked at
NoContextCall == [pc |-> "idle", relevantChunks |-> <<>>,
                  result |-> EmptyContext]

NoFilters == [version |-> NoText, category |-> NoText]

\* no ask() call has been made
NoAskCall == [pc |-> "idle",
              args |-> [similarity |-> <<>>, filter |-> NoFilters,
                        maxChunks |-> NoNumber],
              fetches |-> <<>>, error |-> "", answer |-> ""]

\* no findRelevantChunks call has been made by the page
NoRelevantCall == [pc |-> "idle", wasLoaded |-> FALSE, threw |-> FALSE,
                   result |-> <<>>]

\* askStream has not been called
NoStreamCall == [pc |-> "idle",
                 args |-> [similarity |-> <<>>, filter |-> NoFilters],
                 frames |-> <<>>, events |-> <<>>, sources |-> <<>>]

\* new MagnoliaAI() with the default provider and no API key
AiIdle ==
  /\ streamCall = NoStreamCall
  /\ aiLoaded = FALSE
  /\ aiChunks = <<>>
  /\ provider = "anthropic"
  /\ apiKey = FALSE
  /\ askCall = NoAskCall
  /\ relevantCall = NoRelevantCall

\* this.stats of a new MagnoliaDocsIndexer
NoStats == [filesProcessed |-> 0, searchRecords |-> 0, llmChunks |-> 0,
            pagesSplit |-> 0, errors |-> <<>>]

\* nothing has been written
NoOutputs == [written |-> FALSE, searchIndex |-> <<>>, llmChunks |-> <<>>]

\* extractSections has not been called
NoExtraction == [pc |-> "idle", nodes |-> <<>>, sections |-> <<>>]

\* new MagnoliaDocsIndexer(), build() not called
BuildIdle ==
  /\ extraction = NoExtraction
  /\ htmlFiles = <<>>
  /\ filePos = 0
  /\ stats = NoStats
  /\ searchIndex = <<>>
  /\ llmChunks = <<>>
  /\ outputs = NoOutputs
  /\ buildPc = "idle"

\* the results container as createModal leaves it
EmptyResults == [html |-> "", hits |-> 0]

\* no input event yet
NoUiTrace == [inputs |-> 0, lastInputAt |-> -1, performs |-> 0,
              performedAt |-> -1, performedQuery |-> <<>>,
              valueAtFire |-> <<>>, engineCalls |-> 0,
              closed |-> FALSE, performsSinceClose |-> 0]

\* new MagnoliaSearchUI() after init()
UiIdle ==
  /\ isOpen = FALSE
  /\ currentFilter = ""
  /\ inputValue = <<>>
  /\ results = EmptyResults
  /\ debounceTimer = 0
  /\ timers = {}
  /\ now = 0
  /\ uiTrace = NoUiTrace

OthersIdle ==
  /\ UiIdle
  /\ scoring = NoScoring
  /\ fuzzy = NoFuzzy
  /\ contextCall = NoContextCall
  /\ AiIdle
  /\ BuildIdle

\* load() without the guard on this.loaded
LoadCallNoGuard(k) ==
  /\ call.op = "none"
  /\ loads[k].pc = "idle"
  /\ \A j \in LoadIds : j < k => loads[j].pc # "idle"
  /\ fetchCount' = fetchCount + 1
  /\ loads' = [loads EXCEPT ![k] = [pc |-> "awaitFetch", noop |-> FALSE]]
  /\ UNCHANGED call
  /\ UNCHANGED <<loaded, index, invertedIndex, onReadyCount, chunkVars, otherVars>>

\* load() up to its first await: returns at once when already loaded,
\* otherwise issues the fetch
LoadCall(k) ==
  /\ call.op = "none"
  /\ loads[k].pc = "idle"
  /\ \A j \in LoadIds : j < k => loads[j].pc # "idle"
  /\ IF loaded
       THEN /\ loads' = [loads EXCEPT ![k] = [pc |-> "resolved", noop |-> TRUE]]
            /\ UNCHANGED fetchCount
       ELSE /\ fetchCount' = fetchCount + 1
            /\ loads' = [loads EXCEPT ![k] = [pc |-> "awaitFetch", noop |-> FALSE]]
  /\ UNCHANGED call
  /\ UNCHANGED <<loaded, index, invertedIndex, onReadyCount, chunkVars, otherVars>>

\* the fetch rejects, or resolves with a response that is not ok: the catch
\* block logs and rethrows
FetchFails(k) ==
  /\ call.op = "none"
  /\ loads[k].pc = "awaitFetch"
  /\ loads' = [loads EXCEPT ![k].pc = "rejected"]
  /\ UNCHANGED call
  /\ UNCHANGED <<loaded, index, invertedIndex, fetchCount, onReadyCount,
                 chunkVars, otherVars>>

\* the fetch resolves with an ok response: load() awaits response.json()
FetchOk(k) ==
  /\ call.op = "none"
  /\ loads[k].pc = "awaitFetch"
  /\ loads' = [loads EXCEPT ![k].pc = "awaitJson"]
  /\ UNCHANGED call
  /\ UNCHANGED <<loaded, index, invertedIndex, fetchCount, onReadyCount,
                 chunkVars, otherVars>>

\* response.json() rejects: the body is not JSON
JsonFails(k) ==
  /\ call.op = "none"
  /\ loads[k].pc = "awaitJson"
  /\ loads' = [loads EXCEPT ![k].pc = "rejected"]
  /\ UNCHANGED call
  /\ UNCHANGED <<loaded, index, invertedIndex, fetchCount, onReadyCount,
                 chunkVars, otherVars>>

\* response.json() resolves: the rest of load() runs without suspending.
\* The onReady callback is the caller's code and may throw.
JsonOk(k) ==
  /\ call.op = "none"
  /\ loads[k].pc = "awaitJson"
  /\ \E body \in Bodies, onReadyThrows \in BOOLEAN :
       LET built == buildInvertedIndex(body)
       IN  /\ index' = body
           /\ loaded' = TRUE
           /\ invertedIndex' = [defined |-> TRUE, entries |-> built.entries]
           /\ IF built.threw
                THEN /\ loads' = [loads EXCEPT ![k].pc = "rejected"]
                     /\ UNCHANGED onReadyCount
                ELSE /\ onReadyCount' = onReadyCount + 1
                     /\ loads' = [loads EXCEPT ![k].pc =
                                    IF onReadyThrows THEN "rejected"
                                    ELSE "resolved"]
  /\ UNCHANGED <<call, fetchCount, chunkVars, otherVars>>

\* Object.assign(item.doc, {_score: item.score}) for the records of a result
markScores(idx, result) ==
  [i \in 1..Len(idx) |->
     IF \E r \in 1..Len(result) : result[r].doc = idx[i]
       THEN LET r == CHOOSE r \in 1..Len(result) : result[r].doc = idx[i]
            IN  [f \in DOMAIN idx[i] \cup {"score"} |->
                   IF f = "score" THEN result[r].score ELSE idx[i][f]]
       ELSE idx[i]]

\* search() writing _score into the stored records it returns
SearchOverMarksRecords(queries, versions, categories, limits) ==
  /\ call.op = "none"
  /\ \E q \in queries, v \in versions, c \in categories, m \in limits :
       LET options == [version |-> v, category |-> c, maxResults |-> m]
           result  == search(loaded, index, invertedIndex.entries, q, options)
       IN  /\ call' = [op |-> "search", query |-> q, options |-> options,
                       text |-> <<>>, result |-> result, threw |-> FALSE]
           /\ index' = markScores(index, result)
  /\ UNCHANGED <<loaded, invertedIndex, loads, fetchCount,
                 onReadyCount, chunkVars, otherVars>>

\* search(query, options) returns to its caller, for a query and options
\* taken from the given sets
SearchOver(queries, versions, categories, limits) ==
  /\ call.op = "none"
  /\ \E q \in queries, v \in versions, c \in categories, m \in limits :
       LET options == [version |-> v, category |-> c, maxResults |-> m]
       IN  call' = [op |-> "search", query |-> q, options |-> options,
                    text |-> <<>>,
                    result |-> search(loaded, index, invertedIndex.entries,
                                      q, options),
                    threw |-> FALSE]
  /\ UNCHANGED <<loaded, index, invertedIndex, loads, fetchCount,
                 onReadyCount, chunkVars, otherVars>>

\* getCategories() returns to its caller or throws
GetCategories ==
  /\ call.op = "none"
  /\ LET got == getCategories(loaded, index)
     IN  call' = [op |-> "getCategories", query |-> <<>>,
                  options |-> NoOptions, text |-> <<>>,
                  result |-> got.value, threw |-> got.threw]
  /\ UNCHANGED <<loaded, index, invertedIndex, loads, fetchCount,
                 onReadyCount, chunkVars, otherVars>>

\* getVersions() returns to its caller or throws
GetVersions ==
  /\ call.op = "none"
  /\ LET got == getVersions(loaded, index)
     IN  call' = [op |-> "getVersions", query |-> <<>>,
                  options |-> NoOptions, text |-> <<>>,
                  result |-> got.value, threw |-> got.threw]
  /\ UNCHANGED <<loaded, index, invertedIndex, loads, fetchCount,
                 onReadyCount, chunkVars, otherVars>>

\* highlight(text, query) returns to its caller, for a text and a query
\* taken from the given sets
HighlightOver(texts, queries) ==
  /\ call.op = "none"
  /\ \E text \in texts, q \in queries :
       call' = [op |-> "highlight", query |-> q, options |-> NoOptions,
                text |-> text, result |-> highlight(text, q, TagMark),
                threw |-> FALSE]
  /\ UNCHANGED <<loaded, index, invertedIndex, loads, fetchCount,
                 onReadyCount, chunkVars, otherVars>>

\* the caller has used the result and ends its turn
SearchDone ==
  /\ call.op # "none"
  /\ call' = NoCall
  /\ UNCHANGED <<loaded, index, invertedIndex, loads, fetchCount,
                 onReadyCount, chunkVars, otherVars>>

vars == <<engineVars, chunkVars, otherVars>>

(***************************************************************************)
(* Spec: load() calls and their continuations interleaved with searches    *)
(***************************************************************************)
LoadingQueries == {QueryJava, QueryX}
LoadingVersions == {NoText, Text("6.2")}

SearchWhileLoading ==
  SearchOver(LoadingQueries, LoadingVersions, {NoText}, {NoNumber})

Init == EngineInit /\ ChunkerIdle /\ OthersIdle

Next ==
  \/ \E k \in LoadIds : LoadCall(k)
  \/ \E k \in LoadIds : FetchFails(k)
  \/ \E k \in LoadIds : FetchOk(k)
  \/ \E k \in LoadIds : JsonFails(k)
  \/ \E k \in LoadIds : JsonOk(k)
  \/ SearchWhileLoading
  \/ SearchDone

Spec == Init /\ [][Next]_vars

(***************************************************************************)
(* SpecSearch: searches on an engine whose first load() has run to its end *)
(* on one of the index files                                               *)
(***************************************************************************)
VersionOptions == {NoText, Text(""), Text("6.2"), Text("6.3")}
CategoryOptions == {NoText, Text("Magnolia 6.2"), Text("Modules")}
MaxResultsOptions == {NoNumber, Number(0), Number(1), Number(3)}

Search ==
  SearchOver(Queries, VersionOptions, CategoryOptions, MaxResultsOptions)

\* the state JsonOk(1) leaves when the first load() is served body
InitSearch ==
  \E body \in Bodies :
    LET built == buildInvertedIndex(body)
    IN  /\ loaded = TRUE
        /\ index = body
        /\ invertedIndex = [defined |-> TRUE, entries |-> built.entries]
        /\ loads = [k \in LoadIds |->
                      IF k = 1
                        THEN [pc |-> IF built.threw THEN "rejected"
                                     ELSE "resolved", noop |-> FALSE]
                        ELSE [pc |-> "idle", noop |-> FALSE]]
        /\ fetchCount = 1
        /\ onReadyCount = IF built.threw THEN 0 ELSE 1
        /\ call = NoCall
        /\ ChunkerIdle
        /\ OthersIdle

\* the texts the result list highlights: titles, headings and previews
HighlightTexts == {TitleInstall, TitleJava, HeadingJava, ContentJava17,
                   ContentJavaTwice, <<>>}

\* the queries of the searches whose results are highlighted
QueryJavaMark == <<"j", "a", "v", "a", " ", "m", "a", "r", "k">>
HighlightQueries == Queries \cup {QueryJavaMark}

Highlight == HighlightOver(HighlightTexts, HighlightQueries)

NextSearch ==
  \/ Search
  \/ GetCategories
  \/ GetVersions
  \/ Highlight
  \/ SearchDone

SpecSearch == InitSearch /\ [][NextSearch]_vars

(***************************************************************************)
(* SpecChunks: processFile hands one extracted page to createLlmChunks     *)
(***************************************************************************)
\* largest number of sections of a page
MaxSections == 3

\* header blocks: '# title', URL, Category, Version and '---' lines, of 13
\* and 15 estimated tokens
Headers == {Profile(9, 1, 0, 0), Profile(10, 1, 0, 0)}

Section(heading, headingLevel, content) ==
  [heading |-> heading, headingLevel |-> headingLevel, content |-> content]

\* sections of 50, 100, 109, 700, 787, 800, 1485 and 1585 estimated tokens
SectionKinds ==
  { Section(EmptyText, 0, Profile(38, 0, 0, 0)),
    Section(EmptyText, 0, Profile(538, 0, 0, 0)),
    Section(Profile(2, 0, 0, 0), 2, Profile(74, 0, 0, 0)),
    Section(Profile(1, 0, 0, 0), 3, Profile(10, 14, 1, 1)),
    Section(EmptyText, 0, Profile(605, 0, 0, 0)),
    Section(Profile(3, 0, 0, 0), 1, Profile(612, 0, 0, 0)),
    Section(EmptyText, 0, Profile(1142, 0, 0, 0)),
    Section(Profile(1, 0, 0, 0), 4, Profile(1217, 0, 0, 0)) }

SectionLists ==
  UNION {[1..n -> SectionKinds] : n \in 0..MaxSections}

InitChunks ==
  /\ EngineInit
  /\ page \in [header : Headers, sections : SectionLists]
  /\ chunks = <<>>
  /\ chunkPc = "start"
  /\ OthersIdle

\* const llmChunks = this.createLlmChunks(metadata, sections, url)
CreateLlmChunks ==
  /\ chunkPc = "start"
  /\ chunks' = createLlmChunks(page.header, page.sections)
  /\ chunkPc' = "done"
  /\ UNCHANGED <<page, engineVars, otherVars>>

NextChunks == CreateLlmChunks

SpecChunks == InitChunks /\ [][NextChunks]_vars

(***************************************************************************)
(* SpecScore: search() scores two records that differ in their title only  *)
(* against one query                                                       *)
(***************************************************************************)
\* number of words of the long query
LongQueryWords == 12

\* a word repeated n times, separated by single spaces
repeatWord(word, n) == joinSpace([i \in 1..n |-> word])

QueryJavaRepeated == repeatWord(QueryJava, LongQueryWords)
TitleJavaRepeated == repeatWord(HeadingJava, LongQueryWords)
ContentJavaTen    == repeatWord(QueryJava, 10)

ScoreTitles == {TitleJava, HeadingJava, TitleJavaRepeated, TitleInstall,
                TitleLong}
ScoreQueries == {QueryJava, QueryJav, QueryJava17, QueryMavenCli,
                 QueryJavaRepeated}
ScoreHeadings == {<<>>, HeadingJava}
ScoreHeadingLevels == {0, 1, 3}
ScoreContents == {ContentJavaOnce, ContentJavaTen}
ScoreBreadcrumbs == {<<CrumbDocs>>, <<CrumbDocs, CrumbJava>>}

\* two records of one index that differ in their title only, and the query
\* as search() normalises it
InitScore ==
  /\ EngineInit
  /\ ChunkerIdle
  /\ UiIdle
  /\ BuildIdle
  /\ fuzzy = NoFuzzy
  /\ contextCall = NoContextCall
  /\ AiIdle
  /\ \E titleA \in ScoreTitles, titleB \in ScoreTitles, q \in ScoreQueries,
        heading \in ScoreHeadings, level \in ScoreHeadingLevels,
        content \in ScoreContents, breadcrumb \in ScoreBreadcrumbs :
       scoring =
         [pc     |-> "start",
          docA   |-> createSearchRecord(titleA, heading, level, content,
                                        "Modules", "modules", breadcrumb,
                                        <<"/modules/a.html", "">>),
          docB   |-> createSearchRecord(titleB, heading, level, content,
                                        "Modules", "modules", breadcrumb,
                                        <<"/modules/a.html", "">>),
          query  |-> toLowerCase(trim(q)),
          scoreA |-> 0,
          scoreB |-> 0]

\* const score = this._scoreDocument(doc, queryTerms, query), for both
ScoreDocuments ==
  /\ scoring.pc = "start"
  /\ scoring' =
       [scoring EXCEPT
          !.pc = "done",
          !.scoreA = scoreDocument(scoring.docA, tokenize(scoring.query),
                                   scoring.query),
          !.scoreB = scoreDocument(scoring.docB, tokenize(scoring.query),
                                   scoring.query)]
  /\ UNCHANGED <<uiVars, engineVars, chunkVars, buildVars, fuzzy, contextCall, aiVars>>

NextScore == ScoreDocuments

SpecScore == InitScore /\ [][NextScore]_vars

(***************************************************************************)
(* SpecFuzzy: _findCandidates compares a query token with an indexed term  *)
(***************************************************************************)
\* longest term compared
MaxTermLen == 5

TermChars == {"a", "b"}

Terms == UNION {[1..n -> TermChars] : n \in 0..MaxTermLen}

InitFuzzy ==
  /\ EngineInit
  /\ ChunkerIdle
  /\ UiIdle
  /\ BuildIdle
  /\ scoring = NoScoring
  /\ contextCall = NoContextCall
  /\ AiIdle
  /\ \E a \in Terms, b \in Terms :
       fuzzy = [NoFuzzy EXCEPT !.pc = "start", !.a = a, !.b = b]

\* this._fuzzyMatch(term, indexedWord) and the call with the arguments
\* exchanged
FuzzyMatch ==
  /\ fuzzy.pc = "start"
  /\ fuzzy' = [fuzzy EXCEPT
                 !.pc = "done",
                 !.ab = fuzzyMatch(fuzzy.a, fuzzy.b),
                 !.ba = fuzzyMatch(fuzzy.b, fuzzy.a),
                 !.distAB = levenshtein(fuzzy.a, fuzzy.b),
                 !.distBA = levenshtein(fuzzy.b, fuzzy.a)]
  /\ UNCHANGED <<uiVars, engineVars, chunkVars, buildVars, scoring, contextCall, aiVars>>

NextFuzzy == FuzzyMatch

SpecFuzzy == InitFuzzy /\ [][NextFuzzy]_vars

(***************************************************************************)
(* SpecContext: ask() hands the ranked chunks to buildContext              *)
(***************************************************************************)
\* longest list of ranked chunks
MaxRanked == 5

\* token estimates of the chunks: within the chunk budget of 1500, and of
\* chunks made of one oversized section
ChunkEstimates == {100, 1500, 3000, 5000, 8001}

RankedLists ==
  { [i \in 1..Len(estimates) |-> RankedChunk(i, estimates[i])] :
      estimates \in UNION {[1..m -> ChunkEstimates] : m \in 0..MaxRanked} }

InitContext ==
  /\ EngineInit
  /\ ChunkerIdle
  /\ UiIdle
  /\ BuildIdle
  /\ scoring = NoScoring
  /\ fuzzy = NoFuzzy
  /\ AiIdle
  /\ \E ranked \in RankedLists :
       contextCall = [pc |-> "start", relevantChunks |-> ranked,
                      result |-> EmptyContext]

\* const { context, sources } = this.buildContext(relevantChunks)
BuildContext ==
  /\ contextCall.pc = "start"
  /\ contextCall' = [contextCall EXCEPT
                       !.pc = "done",
                       !.result = buildContext(contextCall.relevantChunks)]
  /\ UNCHANGED <<uiVars, engineVars, chunkVars, buildVars, scoring, fuzzy, aiVars>>

NextContext == BuildContext

SpecContext == InitContext /\ [][NextContext]_vars

(***************************************************************************)
(* SpecAsk: one MagnoliaAI instance, an ask() call with the requests it    *)
(* awaits, and a findRelevantChunks call made by the page                  *)
(***************************************************************************)
Providers == {"anthropic", "openai", "gemini"}

\* llm-chunks.json as served: no chunk, or three chunks of two versions
ChunkFile ==
  <<Chunk(1, 1500, "6.2"), Chunk(2, 400, "6.3"), Chunk(3, 7000, "6.2")>>

ChunkFiles == {<<>>, ChunkFile}

\* _calculateSimilarity of the three chunks for the question asked
Similarities == {<<0, 2, 0>>, <<3, 500, 2>>, <<40, 3, 700>>}

AskFilters == {NoFilters, [version |-> Text("6.2"), category |-> NoText]}

\* an assistant as constructed, or one whose load() has completed before
InitAsk ==
  /\ EngineInit
  /\ ChunkerIdle
  /\ UiIdle
  /\ BuildIdle
  /\ scoring = NoScoring
  /\ fuzzy = NoFuzzy
  /\ contextCall = NoContextCall
  /\ aiLoaded \in BOOLEAN
  /\ aiChunks = IF aiLoaded THEN ChunkFile ELSE <<>>
  /\ provider \in Providers
  /\ apiKey \in BOOLEAN
  /\ askCall = NoAskCall
  /\ relevantCall = NoRelevantCall
  /\ streamCall = NoStreamCall

\* ask() from findRelevantChunks on, up to its next await or its end; the
\* constructor always sets apiEndpoint, so the backend is used whenever no
\* API key is set, and _callLLMDirect otherwise
askProceed(callRec, loadedChunks) ==
  LET relevant == findRelevantChunks(TRUE, loadedChunks,
                                     callRec.args.similarity,
                                     callRec.args.maxChunks,
                                     callRec.args.filter)
  IN  IF relevant.value = <<>>
        THEN [callRec EXCEPT !.pc = "resolved", !.answer = "no documentation"]
      ELSE IF ~apiKey
        THEN [callRec EXCEPT !.pc = "awaitBackend",
                             !.fetches = Append(@, "apiEndpoint")]
      ELSE IF provider = "anthropic"
        THEN [callRec EXCEPT !.pc = "awaitProvider",
                             !.fetches = Append(@, "api.anthropic.com")]
      ELSE IF provider = "openai"
        THEN [callRec EXCEPT !.pc = "awaitProvider",
                             !.fetches = Append(@, "api.openai.com")]
      ELSE [callRec EXCEPT !.pc = "rejected", !.error = "Unknown provider"]

\* ask(question, options) up to its first await
AskCall ==
  /\ askCall.pc = "idle"
  /\ \E similarity \in Similarities, filter \in AskFilters :
       LET started == [askCall EXCEPT
                         !.args = [similarity |-> similarity,
                                   filter |-> filter,
                                   maxChunks |-> NoNumber]]
       IN  askCall' =
             IF ~aiLoaded
               THEN [started EXCEPT !.pc = "awaitLoadFetch",
                                    !.fetches = Append(@, "chunksUrl")]
               ELSE askProceed(started, aiChunks)
  /\ UNCHANGED <<aiLoaded, aiChunks, provider, apiKey, relevantCall,
                 streamCall>>
  /\ UNCHANGED <<uiVars, engineVars, chunkVars, buildVars, scoring, fuzzy, contextCall>>

\* the fetch of the chunks rejects or answers with a status that is not ok
AskLoadFetchFails ==
  /\ askCall.pc = "awaitLoadFetch"
  /\ askCall' = [askCall EXCEPT !.pc = "rejected",
                                !.error = "Failed to load LLM chunks"]
  /\ UNCHANGED <<aiLoaded, aiChunks, provider, apiKey, relevantCall,
                 streamCall>>
  /\ UNCHANGED <<uiVars, engineVars, chunkVars, buildVars, scoring, fuzzy, contextCall>>

AskLoadFetchOk ==
  /\ askCall.pc = "awaitLoadFetch"
  /\ askCall' = [askCall EXCEPT !.pc = "awaitLoadJson"]
  /\ UNCHANGED <<aiLoaded, aiChunks, provider, apiKey, relevantCall,
                 streamCall>>
  /\ UNCHANGED <<uiVars, engineVars, chunkVars, buildVars, scoring, fuzzy, contextCall>>

\* response.json() rejects
AskLoadJsonFails ==
  /\ askCall.pc = "awaitLoadJson"
  /\ askCall' = [askCall EXCEPT !.pc = "rejected", !.error = "SyntaxError"]
  /\ UNCHANGED <<aiLoaded, aiChunks, provider, apiKey, relevantCall,
                 streamCall>>
  /\ UNCHANGED <<uiVars, engineVars, chunkVars, buildVars, scoring, fuzzy, contextCall>>

\* response.json() resolves: load() ends and ask() goes on
AskLoadJsonOk ==
  /\ askCall.pc = "awaitLoadJson"
  /\ \E body \in ChunkFiles :
       /\ aiChunks' = body
       /\ aiLoaded' = TRUE
       /\ askCall' = askProceed(askCall, body)
  /\ UNCHANGED <<provider, apiKey, relevantCall,
                 streamCall>>
  /\ UNCHANGED <<uiVars, engineVars, chunkVars, buildVars, scoring, fuzzy, contextCall>>

\* the backend or the provider is not reached, or the backend's status is
\* not ok, or the body read is not what ask() expects
AskRequestFails ==
  /\ askCall.pc \in {"awaitBackend", "awaitProvider", "awaitAnswerJson"}
  /\ askCall' = [askCall EXCEPT !.pc = "rejected",
                                !.error = "Failed to get AI response"]
  /\ UNCHANGED <<aiLoaded, aiChunks, provider, apiKey, relevantCall,
                 streamCall>>
  /\ UNCHANGED <<uiVars, engineVars, chunkVars, buildVars, scoring, fuzzy, contextCall>>

AskRequestOk ==
  /\ askCall.pc \in {"awaitBackend", "awaitProvider"}
  /\ askCall' = [askCall EXCEPT !.pc = "awaitAnswerJson"]
  /\ UNCHANGED <<aiLoaded, aiChunks, provider, apiKey, relevantCall,
                 streamCall>>
  /\ UNCHANGED <<uiVars, engineVars, chunkVars, buildVars, scoring, fuzzy, contextCall>>

AskAnswerJsonOk ==
  /\ askCall.pc = "awaitAnswerJson"
  /\ askCall' = [askCall EXCEPT !.pc = "resolved", !.answer = "answer"]
  /\ UNCHANGED <<aiLoaded, aiChunks, provider, apiKey, relevantCall,
                 streamCall>>
  /\ UNCHANGED <<uiVars, engineVars, chunkVars, buildVars, scoring, fuzzy, contextCall>>

\* the page calls findRelevantChunks(question) itself
FindRelevantChunks ==
  /\ relevantCall.pc = "idle"
  /\ \E similarity \in Similarities :
       LET found == findRelevantChunks(aiLoaded, aiChunks, similarity,
                                       NoNumber, NoFilters)
       IN  relevantCall' = [pc |-> "done", wasLoaded |-> aiLoaded,
                            threw |-> found.threw, result |-> found.value]
  /\ UNCHANGED <<aiLoaded, aiChunks, provider, apiKey, askCall,
                 streamCall>>
  /\ UNCHANGED <<uiVars, engineVars, chunkVars, buildVars, scoring, fuzzy, contextCall>>

NextAsk ==
  \/ AskCall
  \/ AskLoadFetchFails
  \/ AskLoadFetchOk
  \/ AskLoadJsonFails
  \/ AskLoadJsonOk
  \/ AskRequestFails
  \/ AskRequestOk
  \/ AskAnswerJsonOk
  \/ FindRelevantChunks

SpecAsk == InitAsk /\ [][NextAsk]_vars

(***************************************************************************)
(* SpecStream: one askStream() generator on a MagnoliaAI instance that     *)
(* uses the backend, driven by a consumer that keeps calling next().  A    *)
(* frame is the byte array one reader.read() returns; a decoded text is a  *)
(* sequence of code points.                                                *)
(***************************************************************************)
MaxFrames == 2

\* U+FFFD, which TextDecoder puts for a malformed sequence
ReplacementChar == 65533

\* new TextDecoder().decode(value) for bytes of one- and two-byte sequences
RECURSIVE decode(_)
decode(bytes) ==
  IF bytes = <<>> THEN <<>>
  ELSE IF Head(bytes) < 128 THEN <<Head(bytes)>> \o decode(Tail(bytes))
  ELSE IF /\ Head(bytes) \in 194..223
          /\ Len(bytes) >= 2
          /\ bytes[2] \in 128..191
    THEN <<(Head(bytes) - 192) * 64 + (bytes[2] - 128)>>
           \o decode(SubSeq(bytes, 3, Len(bytes)))
  ELSE <<ReplacementChar>> \o decode(Tail(bytes))

\* the frames a response may come in: 'A', 'e' with acute accent, either
\* half of that character alone, and 'A' with the first half
Frames == {<<65>>, <<195, 169>>, <<195>>, <<169>>, <<65, 195>>}

InitStream ==
  /\ EngineInit
  /\ ChunkerIdle
  /\ UiIdle
  /\ BuildIdle
  /\ scoring = NoScoring
  /\ fuzzy = NoFuzzy
  /\ contextCall = NoContextCall
  /\ aiLoaded \in BOOLEAN
  /\ aiChunks = IF aiLoaded THEN ChunkFile ELSE <<>>
  /\ provider = "anthropic"
  /\ apiKey = FALSE
  /\ askCall = NoAskCall
  /\ relevantCall = NoRelevantCall
  /\ streamCall = NoStreamCall

\* askStream from findRelevantChunks to its first yield
streamProceed(callRec, loadedChunks) ==
  LET relevant == findRelevantChunks(TRUE, loadedChunks,
                                     callRec.args.similarity, NoNumber,
                                     callRec.args.filter)
      sources  == buildContext(relevant.value).sources
  IN  [callRec EXCEPT !.pc = "yieldedSources",
                      !.sources = sources,
                      !.events = Append(@, [type |-> "sources",
                                            sources |-> sources])]

\* the first next(): askStream(question, options) up to its first await or
\* yield
StreamCall ==
  /\ streamCall.pc = "idle"
  /\ \E similarity \in Similarities, filter \in AskFilters :
       LET started == [streamCall EXCEPT
                         !.args = [similarity |-> similarity,
                                   filter |-> filter]]
       IN  streamCall' = IF ~aiLoaded
                           THEN [started EXCEPT !.pc = "awaitLoad"]
                           ELSE streamProceed(started, aiChunks)
  /\ UNCHANGED <<aiLoaded, aiChunks, provider, apiKey, askCall, relevantCall>>
  /\ UNCHANGED <<uiVars, engineVars, chunkVars, buildVars, scoring, fuzzy, contextCall>>

\* load() rejects: the generator throws
StreamLoadFails ==
  /\ streamCall.pc = "awaitLoad"
  /\ streamCall' = [streamCall EXCEPT !.pc = "threw"]
  /\ UNCHANGED <<aiLoaded, aiChunks, provider, apiKey, askCall, relevantCall>>
  /\ UNCHANGED <<uiVars, engineVars, chunkVars, buildVars, scoring, fuzzy, contextCall>>

\* load() resolves: the generator goes on to yield the sources
StreamLoadOk ==
  /\ streamCall.pc = "awaitLoad"
  /\ \E body \in ChunkFiles :
       /\ aiChunks' = body
       /\ aiLoaded' = TRUE
       /\ streamCall' = streamProceed(streamCall, body)
  /\ UNCHANGED <<provider, apiKey, askCall, relevantCall>>
  /\ UNCHANGED <<uiVars, engineVars, chunkVars, buildVars, scoring, fuzzy, contextCall>>

\* the next next(): fetch(this.apiEndpoint + '/stream', ...)
StreamFetch ==
  /\ streamCall.pc = "yieldedSources"
  /\ streamCall' = [streamCall EXCEPT !.pc = "awaitFetch"]
  /\ UNCHANGED <<aiLoaded, aiChunks, provider, apiKey, askCall, relevantCall>>
  /\ UNCHANGED <<uiVars, engineVars, chunkVars, buildVars, scoring, fuzzy, contextCall>>

\* the fetch resolves, whatever the status: the generator reads the body
StreamFetchOk ==
  /\ streamCall.pc = "awaitFetch"
  /\ streamCall' = [streamCall EXCEPT !.pc = "awaitRead"]
  /\ UNCHANGED <<aiLoaded, aiChunks, provider, apiKey, askCall, relevantCall>>
  /\ UNCHANGED <<uiVars, engineVars, chunkVars, buildVars, scoring, fuzzy, contextCall>>

\* the fetch or a read rejects: the generator throws
StreamRequestFails ==
  /\ streamCall.pc \in {"awaitFetch", "awaitRead"}
  /\ streamCall' = [streamCall EXCEPT !.pc = "threw"]
  /\ UNCHANGED <<aiLoaded, aiChunks, provider, apiKey, askCall, relevantCall>>
  /\ UNCHANGED <<uiVars, engineVars, chunkVars, buildVars, scoring, fuzzy, contextCall>>

\* reader.read() gives a frame whose text is added to the last text event
StreamFrameJoined ==
  /\ streamCall.pc = "awaitRead"
  /\ Len(streamCall.frames) < MaxFrames
  /\ \E value \in Frames :
       streamCall' =
         [streamCall EXCEPT
            !.frames = Append(@, value),
            !.events =
              IF streamCall.events[Len(streamCall.events)].type = "text"
                THEN [@ EXCEPT ![Len(@)].text = @ \o decode(value)]
                ELSE Append(@, [type |-> "text", text |-> decode(value)])]
  /\ UNCHANGED <<aiLoaded, aiChunks, provider, apiKey, askCall, relevantCall>>
  /\ UNCHANGED <<uiVars, engineVars, chunkVars, buildVars, scoring, fuzzy, contextCall>>

\* reader.read() gives a frame: the generator yields its text and, at the
\* next next(), reads again
StreamFrame ==
  /\ streamCall.pc = "awaitRead"
  /\ Len(streamCall.frames) < MaxFrames
  /\ \E value \in Frames :
       streamCall' =
         [streamCall EXCEPT
            !.frames = Append(@, value),
            !.events = Append(@, [type |-> "text", text |-> decode(value)])]
  /\ UNCHANGED <<aiLoaded, aiChunks, provider, apiKey, askCall, relevantCall>>
  /\ UNCHANGED <<uiVars, engineVars, chunkVars, buildVars, scoring, fuzzy, contextCall>>

\* reader.read() gives done: the generator yields 'done' and returns
StreamEnd ==
  /\ streamCall.pc = "awaitRead"
  /\ streamCall' = [streamCall EXCEPT
                      !.pc = "returned",
                      !.events = Append(@, [type |-> "done"])]
  /\ UNCHANGED <<aiLoaded, aiChunks, provider, apiKey, askCall, relevantCall>>
  /\ UNCHANGED <<uiVars, engineVars, chunkVars, buildVars, scoring, fuzzy, contextCall>>

NextStream ==
  \/ StreamCall
  \/ StreamLoadFails
  \/ StreamLoadOk
  \/ StreamFetch
  \/ StreamFetchOk
  \/ StreamRequestFails
  \/ StreamFrame
  \/ StreamEnd

SpecStream == InitStream /\ [][NextStream]_vars

(***************************************************************************)
(* MagnoliaDocsIndexer.build(): the loop over the HTML files and            *)
(* writeOutputs.  The initial states are those after findHtmlFiles.        *)
(***************************************************************************)
MaxFiles == 2

TitleNotFound ==
  <<"4", "0", "4", " ", "N", "o", "t", " ", "F", "o", "u", "n", "d">>
ContentJavaLong == repeatWord(QueryJava, 25)
\* 600 times the word 'ab', separated by spaces
ContentBig ==
  [i \in 1..(3 * 600 - 1) |->
     IF i % 3 = 1 THEN "a" ELSE IF i % 3 = 2 THEN "b" ELSE " "]

Node(tagName, text, id) == [tagName |-> tagName, text |-> text, id |-> id]

\* an element of the main content; texts of 9, 10 and 11 characters
TextReadMore   == <<"R", "e", "a", "d", " ", "m", "o", "r", "e">>
TextClickHere  == <<"C", "l", "i", "c", "k", " ", "h", "e", "r", "e">>
TextInstallNow ==
  <<"I", "n", "s", "t", "a", "l", "l", " ", "n", "o", "w">>
TextSetup      == <<"S", "e", "t", "u", "p">>
TextSetupBang  == <<" ", "S", "e", "t", "u", "p", "!", " ">>
IdJava         == <<"_", "j", "a", "v", "a">>

PageSection(heading, headingLevel, content, anchor) ==
  [heading |-> heading, headingLevel |-> headingLevel, content |-> content,
   anchor |-> anchor]

PageContent(title, breadcrumb, description, sections) ==
  [title |-> title, breadcrumb |-> breadcrumb, description |-> description,
   sections |-> sections]

\* a page of one section
PageSmall ==
  PageContent(TitleJava, <<CrumbDocs, CrumbJava>>, ContentJavaOnce,
              <<PageSection(HeadingJava, 2, ContentJavaLong, slugify(HeadingJava))>>)
\* a page of two long sections, which is split
PageBig ==
  PageContent(TitleLong, <<>>, <<>>,
              <<PageSection(<<>>, 0, ContentBig, <<>>),
                PageSection(HeadingMaven, 2, ContentBig, slugify(HeadingMaven))>>)
\* a page whose main content is shorter than 100 characters
PageShort ==
  PageContent(TitleJava, <<CrumbDocs>>, <<>>,
              <<PageSection(HeadingJava, 2, ContentJavaOnce, slugify(HeadingJava))>>)
\* a page whose two headings carry no id and differ in spacing and
\* punctuation only
PageTwice ==
  PageContent(TitleJava, <<CrumbDocs>>, <<>>,
              extractSections(<<Node("h2", TextSetup, <<>>),
                                Node("p", ContentJavaLong, <<>>),
                                Node("h2", TextSetupBang, <<>>),
                                Node("p", ContentJavaLong, <<>>)>>))
\* an error page
PageNotFound ==
  PageContent(TitleNotFound, <<>>, <<>>,
              <<PageSection(HeadingJava, 2, ContentJavaLong, slugify(HeadingJava))>>)

HtmlFile(path, readable, content) ==
  [path |-> path, readable |-> readable, content |-> content]

PathDocs62Index ==
  <<"p", "r", "o", "d", "u", "c", "t", "-", "d", "o", "c", "s", "/", "6",
    ".", "2", "/", "i", "n", "d", "e", "x", ".", "h", "t", "m", "l">>
PathDocs63 ==
  <<"p", "r", "o", "d", "u", "c", "t", "-", "d", "o", "c", "s", "/", "6",
    ".", "3", "/", "a", ".", "h", "t", "m", "l">>
PathDocs630 ==
  <<"p", "r", "o", "d", "u", "c", "t", "-", "d", "o", "c", "s", "/", "6",
    ".", "3", "0", "/", "a", ".", "h", "t", "m", "l">>
PathDocs62Paas ==
  <<"p", "r", "o", "d", "u", "c", "t", "-", "d", "o", "c", "s", "/", "6",
    ".", "2", "/", "p", "a", "a", "s", "/", "a", ".", "h", "t", "m", "l">>
PathPaasIndex ==
  <<"p", "a", "a", "s", "/", "i", "n", "d", "e", "x", ".", "h", "t", "m",
    "l">>
PathCockpit ==
  <<"c", "o", "c", "k", "p", "i", "t", "\\", "a", ".", "h", "t", "m", "l">>
PathSupportCli ==
  <<"s", "u", "p", "p", "o", "r", "t", "/", "m", "a", "g", "n", "o", "l",
    "i", "a", "-", "c", "l", "i", "/", "a", ".", "h", "t", "m", "l">>
PathCliHeadless ==
  <<"m", "a", "g", "n", "o", "l", "i", "a", "-", "c", "l", "i", "/", "h",
    "e", "a", "d", "l", "e", "s", "s", "/", "a", ".", "h", "t", "m", "l">>
PathHeadless ==
  <<"h", "e", "a", "d", "l", "e", "s", "s", "/", "a", ".", "h", "t", "m",
    "l">>
PathSupportHtml ==
  <<"s", "u", "p", "p", "o", "r", "t", ".", "h", "t", "m", "l">>
PathSupportIndex ==
  <<"s", "u", "p", "p", "o", "r", "t", "/", "i", "n", "d", "e", "x", ".",
    "h", "t", "m", "l">>
PathSetup == <<"s", "e", "t", "u", "p", ".", "h", "t", "m", "l">>
PathIndex == <<"i", "n", "d", "e", "x", ".", "h", "t", "m", "l">>
PathModules ==
  <<"m", "o", "d", "u", "l", "e", "s", "/", "a", ".", "h", "t", "m", "l">>

\* the files of the documentation tree
HtmlFiles ==
  { HtmlFile(PathDocs62Index, TRUE, PageSmall),
    HtmlFile(PathDocs63, TRUE, PageBig),
    HtmlFile(PathDocs630, TRUE, PageSmall),
    HtmlFile(PathDocs62Paas, TRUE, PageSmall),
    HtmlFile(PathPaasIndex, FALSE, PageSmall),
    HtmlFile(PathCockpit, TRUE, PageSmall),
    HtmlFile(PathSupportCli, TRUE, PageSmall),
    HtmlFile(PathCliHeadless, TRUE, PageShort),
    HtmlFile(PathHeadless, TRUE, PageNotFound),
    HtmlFile(PathSupportHtml, TRUE, PageSmall),
    HtmlFile(PathSupportIndex, TRUE, PageSmall),
    HtmlFile(PathSetup, TRUE, PageTwice),
    HtmlFile(PathIndex, TRUE, PageSmall),
    HtmlFile(PathModules, FALSE, PageSmall) }

\* findHtmlFiles returns each file of the tree once
FileLists ==
  { files \in UNION { [1..n -> HtmlFiles] : n \in 0..MaxFiles } :
      \A i, j \in 1..Len(files) : files[i] = files[j] => i = j }

InitBuild ==
  /\ EngineInit
  /\ ChunkerIdle
  /\ UiIdle
  /\ scoring = NoScoring
  /\ fuzzy = NoFuzzy
  /\ contextCall = NoContextCall
  /\ AiIdle
  /\ extraction = NoExtraction
  /\ htmlFiles \in FileLists
  /\ filePos = 0
  /\ stats = NoStats
  /\ searchIndex = <<>>
  /\ llmChunks = <<>>
  /\ outputs = NoOutputs
  /\ buildPc = "loop"

\* the message of the error readFile throws
ReadError == "ENOENT"

\* one iteration of the loop of build() that also counts a file whose
\* processing threw
ProcessFileCountsFailures ==
  /\ buildPc = "loop"
  /\ filePos < Len(htmlFiles)
  /\ LET file   == htmlFiles[filePos + 1]
         result == processFile(file)
     IN  /\ searchIndex' = searchIndex \o result.records
         /\ llmChunks' = llmChunks \o result.llmChunks
         /\ stats' =
              [stats EXCEPT
                 !.filesProcessed = @ + 1,
                 !.searchRecords = @ + Len(result.records),
                 !.llmChunks = @ + Len(result.llmChunks),
                 !.pagesSplit = IF Len(result.llmChunks) > 1 THEN @ + 1 ELSE @,
                 !.errors = IF result.threw
                              THEN Append(@, [file |-> file.path,
                                              error |-> ReadError])
                              ELSE @]
  /\ filePos' = filePos + 1
  /\ UNCHANGED <<htmlFiles, outputs, buildPc, extraction>>
  /\ UNCHANGED <<uiVars, engineVars, chunkVars, scoring, fuzzy, contextCall, aiVars>>

\* one iteration of the loop of build(): try processFile and count the
\* file, catch what it throws into stats.errors
ProcessFile ==
  /\ buildPc = "loop"
  /\ filePos < Len(htmlFiles)
  /\ LET file   == htmlFiles[filePos + 1]
         result == processFile(file)
     IN  /\ searchIndex' = searchIndex \o result.records
         /\ llmChunks' = llmChunks \o result.llmChunks
         /\ stats' =
              [stats EXCEPT
                 !.filesProcessed = IF result.threw THEN @ ELSE @ + 1,
                 !.searchRecords = @ + Len(result.records),
                 !.llmChunks = @ + Len(result.llmChunks),
                 !.pagesSplit = IF Len(result.llmChunks) > 1 THEN @ + 1 ELSE @,
                 !.errors = IF result.threw
                              THEN Append(@, [file |-> file.path,
                                              error |-> ReadError])
                              ELSE @]
  /\ filePos' = filePos + 1
  /\ UNCHANGED <<htmlFiles, outputs, buildPc, extraction>>
  /\ UNCHANGED <<uiVars, engineVars, chunkVars, scoring, fuzzy, contextCall, aiVars>>

\* after the loop: writeOutputs writes the files and build() returns
WriteOutputs ==
  /\ buildPc = "loop"
  /\ filePos = Len(htmlFiles)
  /\ outputs' = [written |-> TRUE, searchIndex |-> searchIndex,
                 llmChunks |-> llmChunks]
  /\ buildPc' = "resolved"
  /\ UNCHANGED <<htmlFiles, filePos, stats, searchIndex, llmChunks,
                 extraction>>
  /\ UNCHANGED <<uiVars, engineVars, chunkVars, scoring, fuzzy, contextCall, aiVars>>

\* after the loop: a write of writeOutputs fails and build() rejects
WriteOutputsFails ==
  /\ buildPc = "loop"
  /\ filePos = Len(htmlFiles)
  /\ buildPc' = "rejected"
  /\ UNCHANGED <<htmlFiles, filePos, stats, searchIndex, llmChunks, outputs,
                 extraction>>
  /\ UNCHANGED <<uiVars, engineVars, chunkVars, scoring, fuzzy, contextCall, aiVars>>

NextBuild == ProcessFile \/ WriteOutputs \/ WriteOutputsFails

SpecBuild == InitBuild /\ [][NextBuild]_vars

(***************************************************************************)
(* SpecExtract: extractSections walks the elements of the content area of  *)
(* a page                                                                  *)
(***************************************************************************)
MaxNodes == 3

\* headings with and without id, paragraphs and list items around the
\* length limit, code blocks that render to 10 and 11 characters, a table
NodeKinds ==
  { Node("h2", TextSetup, <<>>),
    Node("h2", TextSetupBang, <<>>),
    Node("h3", HeadingJava, IdJava),
    Node("p", TextReadMore, <<>>),
    Node("li", TextClickHere, <<>>),
    Node("p", TextInstallNow, <<>>),
    Node("pre", <<"a", "b", "c">>, <<>>),
    Node("pre", <<"a", "b", "c", "d">>, <<>>),
    Node("table", <<"a", " ", "|", " ", "b">>, <<>>) }

NodeLists == UNION {[1..n -> NodeKinds] : n \in 0..MaxNodes}

InitExtract ==
  /\ EngineInit
  /\ ChunkerIdle
  /\ UiIdle
  /\ scoring = NoScoring
  /\ fuzzy = NoFuzzy
  /\ contextCall = NoContextCall
  /\ AiIdle
  /\ htmlFiles = <<>>
  /\ filePos = 0
  /\ stats = NoStats
  /\ searchIndex = <<>>
  /\ llmChunks = <<>>
  /\ outputs = NoOutputs
  /\ buildPc = "idle"
  /\ \E nodes \in NodeLists :
       extraction = [pc |-> "start", nodes |-> nodes, sections |-> <<>>]

\* const sections = this.extractSections($)
ExtractSections ==
  /\ extraction.pc = "start"
  /\ extraction' = [extraction EXCEPT
                      !.pc = "done",
                      !.sections = extractSections(extraction.nodes)]
  /\ UNCHANGED <<htmlFiles, filePos, stats, searchIndex, llmChunks, outputs,
                 buildPc>>
  /\ UNCHANGED <<uiVars, engineVars, chunkVars, scoring, fuzzy, contextCall, aiVars>>

NextExtract == ExtractSections

SpecExtract == InitExtract /\ [][NextExtract]_vars

(***************************************************************************)
(* SpecUi: MagnoliaSearchUI.  The modal is opened and closed, input events *)
(* start the debounce timer, filter buttons are clicked and time passes;   *)
(* the engine has loaded the small index.  A timeout fires when its delay  *)
(* has elapsed.                                                            *)
(***************************************************************************)
\* ticks the model lets pass, and input events it lets happen
MaxTime == 7
MaxInputs == 3

\* setTimeout(..., 150), in ticks of 50 ms
DebounceTicks == 3

\* maxResults of performSearch
UiMaxResults == 15

\* what is typed into the input
InputValues == {<<>>, <<"j">>, QueryJava, QueryMissing}

\* data-filter of two of the filter buttons
FilterValues == {"", "6.3"}

\* performSearch(query): the innerHTML it gives the results container and
\* whether it called search() on the engine
performSearch(query) ==
  IF query = <<>> \/ Len(query) < MinQueryLength
    THEN [results |-> [html |-> "Type to search...", hits |-> 0],
          searched |-> FALSE]
  ELSE LET found == search(loaded, index, invertedIndex.entries, query,
                           [version    |-> IF currentFilter = "" THEN NoText
                                           ELSE Text(currentFilter),
                            category   |-> NoText,
                            maxResults |-> Number(UiMaxResults)])
       IN  [results  |-> IF Len(found) = 0
                           THEN [html |-> "No results found", hits |-> 0]
                           ELSE [html |-> "results", hits |-> Len(found)],
            searched |-> TRUE]

InitUi ==
  /\ loaded = TRUE
  /\ index = SmallIndex
  /\ invertedIndex = [defined |-> TRUE,
                      entries |-> buildInvertedIndex(SmallIndex).entries]
  /\ loads = [k \in LoadIds |->
                [pc |-> IF k = 1 THEN "resolved" ELSE "idle", noop |-> FALSE]]
  /\ fetchCount = 1
  /\ onReadyCount = 1
  /\ call = NoCall
  /\ ChunkerIdle
  /\ scoring = NoScoring
  /\ fuzzy = NoFuzzy
  /\ contextCall = NoContextCall
  /\ AiIdle
  /\ BuildIdle
  /\ UiIdle

\* open()
Open ==
  /\ ~isOpen
  /\ isOpen' = TRUE
  /\ uiTrace' = [uiTrace EXCEPT !.closed = FALSE, !.performsSinceClose = 0]
  /\ UNCHANGED <<currentFilter, inputValue, results, debounceTimer, timers,
                 now>>
  /\ UNCHANGED <<engineVars, chunkVars, scoring, fuzzy, contextCall, aiVars,
                 buildVars>>

\* close(): the results container and the input are cleared
Close ==
  /\ isOpen
  /\ isOpen' = FALSE
  /\ results' = EmptyResults
  /\ inputValue' = <<>>
  /\ uiTrace' = [uiTrace EXCEPT !.closed = TRUE, !.performsSinceClose = 0]
  /\ UNCHANGED <<currentFilter, debounceTimer, timers, now>>
  /\ UNCHANGED <<engineVars, chunkVars, scoring, fuzzy, contextCall, aiVars,
                 buildVars>>

\* the input listener without clearTimeout
InputKeepsTimer ==
  /\ isOpen
  /\ uiTrace.inputs < MaxInputs
  /\ \E value \in InputValues :
       /\ inputValue' = value
       /\ timers' = timers \cup {[id       |-> uiTrace.inputs + 1,
                                  deadline |-> now + DebounceTicks,
                                  value    |-> value]}
  /\ debounceTimer' = uiTrace.inputs + 1
  /\ uiTrace' = [uiTrace EXCEPT !.inputs = @ + 1, !.lastInputAt = now,
                                !.performs = 0, !.engineCalls = 0,
                                !.closed = FALSE, !.performsSinceClose = 0]
  /\ UNCHANGED <<isOpen, currentFilter, results, now>>
  /\ UNCHANGED <<engineVars, chunkVars, scoring, fuzzy, contextCall, aiVars,
                 buildVars>>

\* an input event: the value of the input has changed, the listener clears
\* the timeout in debounceTimer and sets a new one
Input ==
  /\ isOpen
  /\ uiTrace.inputs < MaxInputs
  /\ \E value \in InputValues :
       /\ inputValue' = value
       /\ timers' = {t \in timers : t.id # debounceTimer}
                      \cup {[id       |-> uiTrace.inputs + 1,
                             deadline |-> now + DebounceTicks,
                             value    |-> value]}
  /\ debounceTimer' = uiTrace.inputs + 1
  /\ uiTrace' = [uiTrace EXCEPT !.inputs = @ + 1, !.lastInputAt = now,
                                !.performs = 0, !.engineCalls = 0,
                                !.closed = FALSE, !.performsSinceClose = 0]
  /\ UNCHANGED <<isOpen, currentFilter, results, now>>
  /\ UNCHANGED <<engineVars, chunkVars, scoring, fuzzy, contextCall, aiVars,
                 buildVars>>

\* the debounce timeout fires: performSearch(e.target.value), the value
\* being read when the callback runs
TimerFires ==
  /\ \E t \in timers :
       /\ t.deadline = now
       /\ timers' = timers \ {t}
  /\ LET done == performSearch(inputValue)
     IN  /\ results' = done.results
         /\ uiTrace' =
              [uiTrace EXCEPT
                 !.performs = @ + 1,
                 !.performedAt = now,
                 !.performedQuery = inputValue,
                 !.valueAtFire = inputValue,
                 !.engineCalls = IF done.searched THEN @ + 1 ELSE @,
                 !.performsSinceClose = IF uiTrace.closed THEN @ + 1 ELSE @]
  /\ UNCHANGED <<isOpen, currentFilter, inputValue, debounceTimer, now>>
  /\ UNCHANGED <<engineVars, chunkVars, scoring, fuzzy, contextCall, aiVars,
                 buildVars>>

\* a click on a filter button: performSearch(input.value) at once
FilterClick ==
  /\ isOpen
  /\ \E filter \in FilterValues :
       /\ currentFilter' = filter
       /\ results' = performSearch(inputValue).results
  /\ uiTrace' = [uiTrace EXCEPT !.closed = FALSE, !.performsSinceClose = 0]
  /\ UNCHANGED <<isOpen, inputValue, debounceTimer, timers, now>>
  /\ UNCHANGED <<engineVars, chunkVars, scoring, fuzzy, contextCall, aiVars,
                 buildVars>>

\* 50 ms pass; a timeout that is due fires first
Tick ==
  /\ now < MaxTime
  /\ \A t \in timers : now < t.deadline
  /\ now' = now + 1
  /\ UNCHANGED <<isOpen, currentFilter, inputValue, results, debounceTimer,
                 timers, uiTrace>>
  /\ UNCHANGED <<engineVars, chunkVars, scoring, fuzzy, contextCall, aiVars,
                 buildVars>>

NextUi == Open \/ Close \/ Input \/ TimerFires \/ FilterClick \/ Tick

SpecUi == InitUi /\ [][NextUi]_vars

(***************************************************************************)
(* Properties of load() and search()                                       *)
(***************************************************************************)
loadStarts(k)  == loads[k].pc = "idle" /\ loads'[k].pc # "idle"
loadRejects(k) == loads[k].pc # "rejected" /\ loads'[k].pc = "rejected"

\* C1: whenever a load() on an engine that is not ready rejects, at whichever
\* step, the engine stays non-ready: loaded is still false and index and
\* invertedIndex hold what they held before.
C1_RejectedLoadLeavesEngineNonReady ==
  [][\A k \in LoadIds :
       (~loaded /\ loadRejects(k)) =>
         (~loaded' /\ index' = index /\ invertedIndex' = invertedIndex)]_vars

\* C2: a search() made while no load() has completed successfully (engine
\* unloaded, loading or failed) returns an empty list.
C2_SearchBeforeSuccessfulLoadIsEmpty ==
  (call.op = "search" /\ \A k \in LoadIds : loads[k].pc # "resolved")
    => call.result = <<>>

\* C3: a load() called on an engine that is already ready returns at once:
\* it issues no fetch, does not invoke onReady and leaves loaded, index and
\* invertedIndex unchanged, however often it is repeated.
C3_LoadOnReadyEngineIsNoOp ==
  [][\A k \in LoadIds :
       (loaded /\ loadStarts(k)) =>
         /\ loads'[k].pc = "resolved"
         /\ UNCHANGED <<loaded, index, invertedIndex, fetchCount,
                        onReadyCount>>]_vars

\* two load() calls in a row were made on a ready engine
C3_Witness ==
  /\ loaded
  /\ loads[1].pc = "resolved" /\ ~loads[1].noop
  /\ loads[2].noop /\ loads[3].noop
  /\ fetchCount = 1 /\ onReadyCount = 1

\* C4: every record search() returns has the version of a given version
\* filter and the category of a given category filter.
C4_ResultsMatchFilters ==
  call.op = "search" =>
    \A i \in 1..Len(call.result) :
      /\ (call.options.version.given /\ call.options.version.value # "")
           => call.result[i].doc.version = call.options.version.value
      /\ (call.options.category.given /\ call.options.category.value # "")
           => call.result[i].doc.category = call.options.category.value

\* a search with both filters returned records and left out records the
\* same search without filters returns
C4_Witness ==
  /\ call.op = "search"
  /\ call.options.version = Text("6.2")
  /\ call.options.category = Text("Magnolia 6.2")
  /\ call.options.maxResults = NoNumber
  /\ call.result # <<>>
  /\ Len(call.result)
       < Len(search(loaded, index, invertedIndex.entries, call.query,
                    NoOptions))

\* the query of the last search as search() normalises it, its tokens, and
\* the positions of the candidates that pass the filters of the last search
lastQuery == toLowerCase(trim(call.query))
lastTerms == tokenize(lastQuery)
lastPassing ==
  LET cands == findCandidates(invertedIndex.entries, lastTerms)
  IN  { cands[i] : i \in
          { j \in 1..Len(cands) :
              /\ (call.options.version.given /\ call.options.version.value # "")
                   => index[cands[j] + 1].version = call.options.version.value
              /\ (call.options.category.given /\ call.options.category.value # "")
                   => index[cands[j] + 1].category = call.options.category.value } }
lastScore(p) == scoreDocument(index[p + 1], lastTerms, lastQuery)

\* C10: on a ready engine the list search() returns is in non-increasing
\* score order, has at most maxResults entries for a positive maxResults and
\* at most 20 when none is given, and holds the highest-scoring candidates
\* that pass the filters: no candidate left out scores higher than a
\* returned one.
C10_ResultsAreTheTopScored ==
  (/\ call.op = "search"
   /\ loaded
   /\ Len(lastQuery) >= 2
   /\ (~call.options.maxResults.given \/ call.options.maxResults.value > 0))
    =>
    LET res   == call.result
        limit == IF call.options.maxResults.given
                   THEN call.options.maxResults.value ELSE 20
    IN  /\ \A i \in 1..(Len(res) - 1) : res[i].score >= res[i + 1].score
        /\ Len(res) <= limit
        /\ Len(res) = min2(limit, Cardinality(lastPassing))
        /\ \A i \in 1..Len(res) :
             \E p \in lastPassing :
               res[i].doc = index[p + 1] /\ res[i].score = lastScore(p)
        /\ \A i, j \in 1..Len(res) : res[i].doc = res[j].doc => i = j
        /\ \A p \in lastPassing :
             (\A i \in 1..Len(res) : res[i].doc # index[p + 1])
               => \A i \in 1..Len(res) : lastScore(p) <= res[i].score

\* a search without maxResults found more than 20 candidates of different
\* scores and returned 20
C10_Witness ==
  /\ call.op = "search"
  /\ loaded
  /\ ~call.options.maxResults.given
  /\ Cardinality(lastPassing) > 20
  /\ Len(call.result) = 20
  /\ call.result[1].score > call.result[20].score

(***************************************************************************)
(* Properties of createLlmChunks                                           *)
(***************************************************************************)
pageTokens == estimateTokens(page.header) + sumSectionTokens(page.sections)
pageIsSplit == chunkPc = "done" /\ pageTokens > MAX_CHUNK_TOKENS

\* C5: the section ranges of the chunks of a split page, in chunkIndex
\* order, partition the section list: the first starts at 0, each next one
\* starts right after the previous end, the last ends at the final section,
\* and each chunk holds exactly the sections of its range, in order.
C5_ChunkRangesPartitionSections ==
  pageIsSplit =>
    /\ Len(chunks) >= 1
    /\ chunks[1].sectionStartIndex = 0
    /\ chunks[Len(chunks)].sectionEndIndex = Len(page.sections) - 1
    /\ \A c \in 1..(Len(chunks) - 1) :
         chunks[c + 1].sectionStartIndex = chunks[c].sectionEndIndex + 1
    /\ \A c \in 1..Len(chunks) :
         /\ chunks[c].chunkIndex = c - 1
         /\ chunks[c].sectionStartIndex <= chunks[c].sectionEndIndex
         /\ chunks[c].sections =
              SubSeq(page.sections, chunks[c].sectionStartIndex + 1,
                     chunks[c].sectionEndIndex + 1)

\* a page was split into two chunks, one of them holding two sections
C5_Witness ==
  /\ pageIsSplit
  /\ Len(chunks) = 2
  /\ \E c \in 1..2 : Len(chunks[c].sections) = 2

\* C6: a page whose header estimate plus section estimates is at most 1500
\* yields exactly one chunk, holding all sections, without chunkIndex and
\* chunkTotal.
C6_SmallPageYieldsOneChunk ==
  (chunkPc = "done" /\ pageTokens <= 1500) =>
    /\ Len(chunks) = 1
    /\ chunks[1].sections = page.sections
    /\ chunks[1].chunkIndex = undefined
    /\ chunks[1].chunkTotal = undefined

\* a page of exactly 1500 estimated tokens was chunked
C6_Witness ==
  /\ chunkPc = "done"
  /\ pageTokens = 1500
  /\ Len(page.sections) >= 1

\* C7: chunkIndex, chunkTotal and an id with the '-' + chunkIndex suffix
\* occur only when the page produced at least 2 chunks; a page that yields
\* exactly one chunk gives it the bare base id and no chunkIndex, chunkTotal.
C7_SingleChunkKeepsBaseId ==
  (chunkPc = "done" /\ Len(chunks) = 1) =>
    /\ chunks[1].id = <<baseId>>
    /\ chunks[1].chunkIndex = undefined
    /\ chunks[1].chunkTotal = undefined

\* C8: every chunk of a split page has chunkTotal equal to the number of
\* chunks returned and chunkIndex equal to its 0-based position.
C8_ChunkTotalAndIndex ==
  pageIsSplit =>
    \A c \in 1..Len(chunks) :
      /\ chunks[c].chunkTotal = Len(chunks)
      /\ chunks[c].chunkIndex = c - 1

\* a page was split into three chunks
C8_Witness == pageIsSplit /\ Len(chunks) = 3

\* C9, as stated: every page of 1600 estimated tokens yields exactly 2
\* chunks, both with chunkTotal = 2.
C9_Page1600YieldsTwoChunks ==
  (chunkPc = "done" /\ pageTokens = 1600) =>
    /\ Len(chunks) = 2
    /\ \A c \in 1..Len(chunks) : chunks[c].chunkTotal = 2

\* C9, amended: a page of 1600 estimated tokens that has at least two
\* sections, the first of at least 100 estimated tokens, yields exactly 2
\* chunks, both with chunkTotal = 2.
C9_Page1600TwoSectionsYieldsTwoChunks ==
  (/\ chunkPc = "done"
   /\ pageTokens = 1600
   /\ Len(page.sections) >= 2
   /\ estimateSectionTokens(page.sections[1]) >= 100) =>
    /\ Len(chunks) = 2
    /\ \A c \in 1..Len(chunks) : chunks[c].chunkTotal = 2

\* a page of 1600 tokens with three sections, the first of at least 100
\* tokens, was chunked
C9_Witness ==
  /\ chunkPc = "done"
  /\ pageTokens = 1600
  /\ Len(page.sections) = 3
  /\ estimateSectionTokens(page.sections[1]) >= 100

(***************************************************************************)
(* Properties of _scoreDocument                                            *)
(***************************************************************************)
\* what one query token adds to the score of a record
tokenContribution(doc, term) ==
  termScore(toLowerCase(doc.title), toLowerCase(doc.heading),
            toLowerCase(doc.fullContent),
            toLowerCase(joinSpace(doc.breadcrumb)), term)

\* the two records get the same contribution from every query token, and
\* only the title of A contains the whole query
onlyTitleAHasPhrase ==
  /\ scoring.pc = "done"
  /\ includes(toLowerCase(scoring.docA.title), scoring.query)
  /\ ~includes(toLowerCase(scoring.docB.title), scoring.query)
  /\ LET terms == tokenize(scoring.query)
     IN  \A i \in 1..Len(terms) :
           tokenContribution(scoring.docA, terms[i])
             = tokenContribution(scoring.docB, terms[i])

\* C11: of two records that differ in their title only, with every
\* per-token contribution equal, the one whose lowercased title contains the
\* whole lowercased query scores strictly higher than the one whose title
\* does not, whatever the title lengths and the number of query tokens.
C11_TitlePhraseMatchScoresHigher ==
  onlyTitleAHasPhrase => scoring.scoreA > scoring.scoreB

(***************************************************************************)
(* Properties of the calls on a loaded engine                              *)
(***************************************************************************)
\* C12: whatever search(), highlight(), getCategories() and getVersions()
\* calls have been made on a loaded engine, the record array is the one the
\* index file gave, no stored record has a _score field, the inverted index
\* is the one built from that array, and the result of a search is the one
\* the query and options give on that array and index.
C12_CallsLeaveIndexUnchanged ==
  /\ index \in Bodies
  /\ \A i \in 1..Len(index) :
       ~isNullDoc(index[i]) => "score" \notin DOMAIN index[i]
  /\ invertedIndex = [defined |-> TRUE,
                      entries |-> buildInvertedIndex(index).entries]
  /\ call.op = "search" =>
       call.result = search(TRUE, index, buildInvertedIndex(index).entries,
                            call.query, call.options)

\* a search on a ready engine returned several records with their scores
C12_Witness ==
  /\ loads[1].pc = "resolved"
  /\ call.op = "search"
  /\ Len(call.result) >= 2
  /\ call.result[1].score > 0
  /\ \E i \in 1..Len(index) : index[i] = call.result[1].doc

\* the text has two adjacent characters that are letters or digits
hasWord(text) ==
  \E i \in 1..(Len(text) - 1) :
    /\ text[i] \in LowerChars \cup UpperChars \cup DigitChars
    /\ text[i + 1] \in LowerChars \cup UpperChars \cup DigitChars

\* C13: on a loaded engine search(query) returns the empty list and does
\* not throw whenever the trimmed query has fewer than 2 characters or holds
\* no word of 2 or more letters or digits.
C13_ShortQueryReturnsEmpty ==
  (/\ call.op = "search"
   /\ loaded
   /\ (Len(trim(call.query)) < 2 \/ ~hasWord(call.query)))
    => (call.result = <<>> /\ ~call.threw)

\* the query 'a b', of three characters and no word, was searched on a
\* ready engine whose index has words starting with 'a'
C13_Witness ==
  /\ loads[1].pc = "resolved"
  /\ call.op = "search"
  /\ call.query = QueryAB
  /\ call.result = <<>>
  /\ \E k \in 1..Len(invertedIndex.entries) :
       startsWith(invertedIndex.entries[k].term, <<"a">>)

(***************************************************************************)
(* Properties of _buildInvertedIndex                                       *)
(***************************************************************************)
\* the tokens of the record at position p (0-based)
tokensOfRecord(p) ==
  LET words == tokenize(index[p + 1].searchText)
  IN  {words[i] : i \in 1..Len(words)}

\* _buildInvertedIndex has run to its end on this.index
indexIsBuilt ==
  /\ loaded
  /\ invertedIndex.defined
  /\ \A i \in 1..Len(index) : ~isNullDoc(index[i])

\* C14: after a build of the inverted index that ran to its end, first or
\* repeated, no reserved word is a key, every key is a token of some record,
\* and for every token t that is not reserved and every position p: p is in
\* invertedIndex[t] exactly when t is a token of record p, and at most once.
C14_IndexMapsTokensToPositions ==
  indexIsBuilt =>
    LET entries   == invertedIndex.entries
        positions == 0..(Len(index) - 1)
    IN  /\ \A k \in 1..Len(entries) :
             /\ entries[k].term \notin ReservedWords
             /\ \A j \in 1..Len(entries) :
                  entries[j].term = entries[k].term => j = k
             /\ \A i, j \in 1..Len(entries[k].docs) :
                  entries[k].docs[i] = entries[k].docs[j] => i = j
             /\ \A i \in 1..Len(entries[k].docs) :
                  /\ entries[k].docs[i] \in positions
                  /\ entries[k].term \in tokensOfRecord(entries[k].docs[i])
        /\ \A p \in positions :
             \A t \in tokensOfRecord(p) \ ReservedWords :
               hasKey(entries, t) /\ inSeq(p, lookup(entries, t))

\* the index was built twice, the last time over records one of which holds
\* the words 'constructor' and 'prototype' and the word 'java' three times
C14_Witness ==
  /\ indexIsBuilt
  /\ index = SmallIndex
  /\ \E j, k \in LoadIds :
       j # k /\ loads[j] = [pc |-> "resolved", noop |-> FALSE]
             /\ loads[k] = [pc |-> "resolved", noop |-> FALSE]
  /\ tokensOfRecord(4) \cap ReservedWords # {}
  /\ inSeq(4, lookup(invertedIndex.entries, QueryJava))

(***************************************************************************)
(* Properties of _findCandidates and _fuzzyMatch                           *)
(***************************************************************************)
\* query token q reaches indexed term w by one of the expansion rules
reaches(q, w) ==
  \/ w = q
  \/ startsWith(q, w)
  \/ startsWith(w, q)
  \/ /\ Len(q) >= 4
     /\ abs(Len(q) - Len(w)) <= 2
     /\ 10 * levenshtein(q, w) <= 4 * max2(Len(q), Len(w))

\* the positions the rules give for the query of the last search
reachedPositions ==
  LET entries == invertedIndex.entries
  IN  { p \in 0..(Len(index) - 1) :
          \E i \in 1..Len(lastTerms), k \in 1..Len(entries) :
            inSeq(p, entries[k].docs) /\ reaches(lastTerms[i], entries[k].term) }

\* C15: _findCandidates returns, each once, exactly the positions listed
\* under an indexed term that equals a query token, is a prefix of it, has
\* it as a prefix, or, for a token of 4 or more characters, differs from it
\* in length by at most 2 with edit distance / longer length <= 0.4.
C15_CandidatesAreTheReachedPositions ==
  (call.op = "search" /\ loaded) =>
    LET cands == findCandidates(invertedIndex.entries, lastTerms)
    IN  /\ {cands[i] : i \in 1..Len(cands)} = reachedPositions
        /\ \A i, j \in 1..Len(cands) : cands[i] = cands[j] => i = j

\* 'maevn' was searched: it is no prefix of an indexed term and no indexed
\* term is a prefix of it, and it reaches 'maven' at distance 2 of 5
C15_Witness ==
  /\ call.op = "search"
  /\ loads[1].pc = "resolved"
  /\ call.query = QueryMaevn
  /\ reachedPositions # {}
  /\ \A k \in 1..Len(invertedIndex.entries) :
       /\ ~startsWith(invertedIndex.entries[k].term, QueryMaevn)
       /\ ~startsWith(QueryMaevn, invertedIndex.entries[k].term)
  /\ levenshtein(QueryMaevn, toLowerCase(HeadingMaven)) = 2

\* C16: for every pair of terms _fuzzyMatch gives the same answer and
\* _levenshtein the same distance whichever of the two comes first.
C16_FuzzyMatchIsSymmetric ==
  fuzzy.pc = "done" =>
    (fuzzy.ab = fuzzy.ba /\ fuzzy.distAB = fuzzy.distBA)

\* two terms of different lengths at distance 2 were matched both ways
C16_Witness ==
  /\ fuzzy.pc = "done"
  /\ Len(fuzzy.a) = 3 /\ Len(fuzzy.b) = 5
  /\ fuzzy.distAB = 2
  /\ fuzzy.ab /\ fuzzy.ba

(***************************************************************************)
(* Properties of buildContext                                              *)
(***************************************************************************)
\* sum of the token estimates of the first n ranked chunks
RECURSIVE rankedTokens(_)
rankedTokens(n) ==
  IF n = 0 THEN 0
  ELSE rankedTokens(n - 1)
         + contextCall.relevantChunks[n].chunk.tokenEstimate

\* C17: the context holds, whole and in rank order, the contents of the
\* longest prefix of the ranked list whose token estimates sum to at most
\* 8000, nothing of any later chunk, and the returned tokenEstimate is the
\* sum over that prefix.
C17_ContextIsLongestPrefixInBudget ==
  contextCall.pc = "done" =>
    LET ranked == contextCall.relevantChunks
        n      == Len(contextCall.result.context)
    IN  /\ n <= Len(ranked)
        /\ \A i \in 1..n :
             contextCall.result.context[i] = ranked[i].chunk.content
        /\ rankedTokens(n) <= 8000
        /\ n < Len(ranked) => rankedTokens(n + 1) > 8000
        /\ contextCall.result.tokenEstimate = rankedTokens(n)

\* the third chunk did not fit and was left out, and so was the fourth,
\* which would have fitted
C17_Witness ==
  /\ contextCall.pc = "done"
  /\ Len(contextCall.relevantChunks) >= 4
  /\ Len(contextCall.result.context) = 2
  /\ rankedTokens(2)
       + contextCall.relevantChunks[4].chunk.tokenEstimate <= 8000

(***************************************************************************)
(* Properties of ask() and findRelevantChunks                              *)
(***************************************************************************)
\* C18: an ask() call on an assistant whose provider is neither 'anthropic'
\* nor 'openai' issues no fetch and, once settled, has failed with the
\* unknown-provider error; findRelevantChunks() called while the chunks are
\* not loaded throws.
C18_ConfigurationErrorsPrecedeFetches ==
  /\ (askCall.pc # "idle" /\ provider \notin {"anthropic", "openai"}) =>
       /\ askCall.fetches = <<>>
       /\ askCall.pc \in {"resolved", "rejected"} =>
            (askCall.pc = "rejected" /\ askCall.error = "Unknown provider")
  /\ (relevantCall.pc = "done" /\ ~relevantCall.wasLoaded) =>
       relevantCall.threw

(***************************************************************************)
(* Properties of build()                                                   *)
(***************************************************************************)
\* the files the loop has gone through whose processing threw
failedFiles == { i \in 1..filePos : ~htmlFiles[i].readable }
errorEntries(path) ==
  { e \in 1..Len(stats.errors) : stats.errors[e].file = path }

\* C19: build() goes through every file found, in order, whatever earlier
\* files did: after each iteration filesProcessed + errors.length is the
\* number of files gone through, which is the number of files found when
\* the loop has ended; each failing file has exactly one {file, error}
\* entry, in file order, and is not counted in filesProcessed; a file
\* failure never rejects build(), and what build() returns has been written.
C19_BuildToleratesFailingFiles ==
  /\ filePos <= Len(htmlFiles)
  /\ stats.filesProcessed + Len(stats.errors) = filePos
  /\ buildPc \in {"resolved", "rejected"} => filePos = Len(htmlFiles)
  /\ stats.filesProcessed = filePos - Cardinality(failedFiles)
  /\ \A i \in 1..filePos :
       Cardinality(errorEntries(htmlFiles[i].path))
         = IF i \in failedFiles THEN 1 ELSE 0
  /\ \A d, e \in 1..Len(stats.errors) :
       d < e => \E i, j \in failedFiles :
                  /\ i < j
                  /\ stats.errors[d].file = htmlFiles[i].path
                  /\ stats.errors[e].file = htmlFiles[j].path
  /\ buildPc = "resolved" =>
       outputs = [written |-> TRUE, searchIndex |-> searchIndex,
                  llmChunks |-> llmChunks]

\* a build whose first file failed went on to index the second file and
\* wrote the outputs
C19_Witness ==
  /\ buildPc = "resolved"
  /\ Len(htmlFiles) = 2
  /\ ~htmlFiles[1].readable
  /\ stats.filesProcessed = 1
  /\ Len(stats.errors) = 1
  /\ outputs.written
  /\ outputs.searchIndex # <<>>

\* C20: every search record and every chunk made from a page carries the
\* category and version categorizeUrl gives for the URL of the page, so the
\* records and chunks of one page agree, and categorizeUrl of utils.js
\* gives the same pair as the indexer's for the URL of every file found.
C20_OneClassificationPerPage ==
  /\ \A r \in 1..Len(searchIndex) :
       LET pair == categorizeUrl(searchIndex[r].url[1])
       IN  /\ searchIndex[r].category = pair.category
           /\ searchIndex[r].version = pair.version
  /\ \A c \in 1..Len(llmChunks) :
       LET pair == categorizeUrl(llmChunks[c].url)
       IN  /\ llmChunks[c].category = pair.category
           /\ llmChunks[c].version = pair.version
  /\ \A r \in 1..Len(searchIndex), c \in 1..Len(llmChunks) :
       searchIndex[r].url[1] = llmChunks[c].url =>
         /\ searchIndex[r].category = llmChunks[c].category
         /\ searchIndex[r].version = llmChunks[c].version
  /\ \A i \in 1..Len(htmlFiles) :
       categorizeUrl(pathToUrl(htmlFiles[i].path))
         = utilsCategorizeUrl(pathToUrl(htmlFiles[i].path))

\* a build indexed a page whose URL matches both the 6.2 and the cloud
\* pattern, as Magnolia 6.2, and a 6.3 page that was split into two chunks
C20_Witness ==
  /\ buildPc = "resolved"
  /\ htmlFiles = <<HtmlFile(PathDocs62Paas, TRUE, PageSmall),
                   HtmlFile(PathDocs63, TRUE, PageBig)>>
  /\ Len(searchIndex) = 3
  /\ Len(llmChunks) = 3
  /\ searchIndex[1].version = "6.2" /\ llmChunks[1].category = "Magnolia 6.2"
  /\ searchIndex[3].version = "6.3" /\ llmChunks[3].version = "6.3"
  /\ stats.pagesSplit = 1

(***************************************************************************)
(* Properties of highlight                                                 *)
(***************************************************************************)
openTag(tag)  == <<"<">> \o tag \o <<">">>
closeTag(tag) == <<"<", "/">> \o tag \o <<">">>

\* reads a highlighted text from left to right, taking every <tag> as the
\* start and every </tag> as the end of a wrapped span: chars are the
\* characters outside the tags, depths the number of spans each is in,
\* spans the texts of the wrapped spans, ok whether the tags are balanced
RECURSIVE readMarkup(_, _, _, _, _, _)
readMarkup(rest, tag, stack, chars, depths, spans) ==
  IF rest = <<>>
    THEN [chars |-> chars, depths |-> depths, spans |-> spans,
          ok |-> stack = <<>>]
  ELSE IF startsWith(rest, openTag(tag))
    THEN readMarkup(SubSeq(rest, Len(openTag(tag)) + 1, Len(rest)), tag,
                    Append(stack, <<>>), chars, depths, spans)
  ELSE IF startsWith(rest, closeTag(tag))
    THEN IF stack = <<>>
           THEN [chars |-> chars, depths |-> depths, spans |-> spans,
                 ok |-> FALSE]
           ELSE LET span  == stack[Len(stack)]
                    outer == SubSeq(stack, 1, Len(stack) - 1)
                IN  readMarkup(
                      SubSeq(rest, Len(closeTag(tag)) + 1, Len(rest)), tag,
                      [k \in 1..Len(outer) |-> outer[k] \o span],
                      chars, depths, spans \cup {span})
  ELSE readMarkup(Tail(rest), tag,
                  [k \in 1..Len(stack) |-> Append(stack[k], Head(rest))],
                  Append(chars, Head(rest)), Append(depths, Len(stack)),
                  spans)

\* the positions of the text where an occurrence of the term starts
occurrences(text, term) ==
  { i \in 1..(Len(text) - Len(term) + 1) :
      toLowerCase(SubSeq(text, i, i + Len(term) - 1)) = term }

\* C21: highlight(text, query, tag) wraps every case-insensitive occurrence
\* of every query token in <tag>...</tag>, each token on its own: the tags
\* of the result are balanced, the characters outside the tags are the
\* original text in order (no match is made inside inserted markup), every
\* wrapped span is an occurrence of a query token, and every occurrence of
\* a token in the text lies inside a wrapped span.
C21_HighlightWrapsTokensIndependently ==
  (call.op = "highlight" /\ call.text # <<>> /\ call.query # <<>>) =>
    LET terms == tokenize(call.query)
        read  == readMarkup(call.result, TagMark, <<>>, <<>>, <<>>, {})
    IN  /\ read.ok
        /\ read.chars = call.text
        /\ \A span \in read.spans :
             \E t \in 1..Len(terms) : toLowerCase(span) = terms[t]
        /\ \A t \in 1..Len(terms) :
             \A i \in occurrences(call.text, terms[t]) :
               \A j \in i..(i + Len(terms[t]) - 1) : read.depths[j] >= 1

(***************************************************************************)
(* Properties of the split path of createLlmChunks                         *)
(***************************************************************************)
\* the running total of a chunk: the header estimate plus the estimates of
\* its sections
runningTokens(c) ==
  estimateTokens(page.header) + sumSectionTokens(chunks[c].sections)

\* C22: the chunks of a split page are the greedy left-to-right packing: no
\* chunk is empty; a chunk of two or more sections has a running total of
\* at most 1500; a section whose estimate with the header exceeds 1500 is
\* alone in its chunk; and for every chunk but the last, the first section
\* of the next chunk would have taken its running total over 1500.
C22_ChunksAreGreedyPacking ==
  pageIsSplit =>
    /\ \A c \in 1..Len(chunks) :
         /\ Len(chunks[c].sections) >= 1
         /\ Len(chunks[c].sections) >= 2 => runningTokens(c) <= MAX_CHUNK_TOKENS
         /\ runningTokens(c) > MAX_CHUNK_TOKENS => Len(chunks[c].sections) = 1
         /\ \A k \in 1..Len(chunks[c].sections) :
              estimateSectionTokens(chunks[c].sections[k]) > MAX_CHUNK_TOKENS
                => Len(chunks[c].sections) = 1
    /\ \A c \in 1..(Len(chunks) - 1) :
         runningTokens(c) + estimateSectionTokens(chunks[c + 1].sections[1])
           > MAX_CHUNK_TOKENS

\* a split page gave a chunk of two sections and a chunk made of one
\* section that is over the budget by itself
C22_Witness ==
  /\ pageIsSplit
  /\ \E c \in 1..Len(chunks) : Len(chunks[c].sections) = 2
  /\ \E c \in 1..Len(chunks) :
       /\ Len(chunks[c].sections) = 1
       /\ estimateSectionTokens(chunks[c].sections[1]) > MAX_CHUNK_TOKENS

(***************************************************************************)
(* Properties of _scoreDocument                                            *)
(***************************************************************************)
contains(text, term) == occurrences(text, term) # {}

\* the points one query token earns, in hundredths
tokenPoints(doc, term) ==
    (IF contains(doc.title, term) THEN 1000 ELSE 0)
  + (IF 1 \in occurrences(doc.title, term) THEN 1500 ELSE 0)
  + (IF contains(doc.heading, term) THEN 800 ELSE 0)
  + (IF contains(doc.fullContent, term)
       THEN LET count == Cardinality(occurrences(doc.fullContent, term))
            IN  300 + (IF 50 * count < 500 THEN 50 * count ELSE 500)
       ELSE 0)
  + (IF contains(joinSpace(doc.breadcrumb), term) THEN 200 ELSE 0)

RECURSIVE sumTokenPoints(_, _, _)
sumTokenPoints(doc, terms, n) ==
  IF n = 0 THEN 0
  ELSE tokenPoints(doc, terms[n]) + sumTokenPoints(doc, terms, n - 1)

\* the sum of the phrase bonuses and the token points, times 1.2 for a
\* title under 30 characters and times 1.1 for a heading level of 1 or 2,
\* in hundredths
formulaScore(doc, terms, query) ==
  LET points == (IF contains(doc.title, query) THEN 10000 ELSE 0)
              + (IF contains(doc.heading, query) THEN 8000 ELSE 0)
              + sumTokenPoints(doc, terms, Len(terms))
      short  == IF Len(doc.title) < 30 THEN 12 ELSE 10
      level  == IF doc.headingLevel \in {1, 2} THEN 11 ELSE 10
  IN  (points * short * level) \div 100

\* C23: _scoreDocument(doc, tokens, query) is the sum of the phrase bonuses
\* (100 title, 80 heading) and, per query token, 10 for the title plus 15
\* when the title starts with it, 8 for the heading, 3 + min(0.5 x count, 5)
\* for the content and 2 for the joined breadcrumb, multiplied once by 1.2
\* for a title shorter than 30 characters and once by 1.1 for a heading
\* level of 1 or 2, however many tokens the query has.
C23_ScoreIsTheStatedFormula ==
  scoring.pc = "done" =>
    LET terms == tokenize(scoring.query)
    IN  /\ scoring.scoreA = formulaScore(scoring.docA, terms, scoring.query)
        /\ scoring.scoreB = formulaScore(scoring.docB, terms, scoring.query)

\* a record with a short title and a level 1 heading was scored against a
\* query of twelve tokens: both boosts applied once to 12 tokens of
\* 10 + 15 + 8 + 3 + 5 + 2 points, 681.12 in all
C23_Witness ==
  /\ scoring.pc = "done"
  /\ Len(tokenize(scoring.query)) = LongQueryWords
  /\ scoring.docA.title = HeadingJava
  /\ scoring.docA.heading = HeadingJava
  /\ scoring.docA.headingLevel = 1
  /\ scoring.docA.fullContent = ContentJavaTen
  /\ Len(scoring.docA.breadcrumb) = 2
  /\ scoring.scoreA = 68112

(***************************************************************************)
(* Properties of extractSections                                           *)
(***************************************************************************)
\* the positions where a section starts: before the first node and at every
\* heading
sectionStarts ==
  {0} \cup { i \in 1..Len(extraction.nodes) :
               extraction.nodes[i].tagName \in HeadingTags }

\* the rendered texts of at least minLength characters of the content nodes
\* between the start g and the next heading, in order
fragmentsFrom(g, minLength) ==
  LET nodes == extraction.nodes
      last  == CHOOSE e \in g..Len(nodes) :
                 /\ \A i \in (g + 1)..e : nodes[i].tagName \notin HeadingTags
                 /\ e = Len(nodes) \/ nodes[e + 1].tagName \in HeadingTags
      long(node) == Len(nodeText(node)) >= minLength
  IN  [i \in 1..Len(SelectSeq(SubSeq(nodes, g + 1, last), long)) |->
         nodeText(SelectSeq(SubSeq(nodes, g + 1, last), long)[i])]

\* the sections emitted are, in order, those that have a fragment of at
\* least minLength characters, each with exactly those fragments
sectionsKeepFragmentsOf(minLength) ==
  LET emitted == { g \in sectionStarts : fragmentsFrom(g, minLength) # <<>> }
      rank(g) == Cardinality({ h \in emitted : h <= g })
  IN  /\ Len(extraction.sections) = Cardinality(emitted)
      /\ \A g \in emitted :
           extraction.sections[rank(g)].content
             = trim(joinSpace(fragmentsFrom(g, minLength)))

\* C24: the rendered text of a non-heading node is appended to the current
\* section if and only if it is at least 10 characters long, and a section
\* that ends with no kept fragment is not emitted.
C24_FragmentsOfTenCharactersAreKept ==
  extraction.pc = "done" => sectionsKeepFragmentsOf(10)

\* what the code does: a fragment is kept if and only if it is longer than
\* 10 characters
C24_FragmentsOverTenCharactersAreKept ==
  extraction.pc = "done" => sectionsKeepFragmentsOf(11)

(***************************************************************************)
(* Properties of the search UI                                             *)
(***************************************************************************)
\* the timeout of the last input event has fired
burstOver == uiTrace.lastInputAt >= 0 /\ timers = {}

\* at most one timeout is pending, it is the one of the last input event,
\* and it calls performSearch once, DebounceTicks after that event, with the
\* value the input holds at that moment
debounceHolds ==
  /\ Cardinality(timers) <= 1
  /\ \A t \in timers :
       /\ t.id = debounceTimer
       /\ t.deadline = uiTrace.lastInputAt + DebounceTicks
       /\ uiTrace.performs = 0
  /\ burstOver =>
       /\ uiTrace.performs = 1
       /\ uiTrace.performedAt = uiTrace.lastInputAt + DebounceTicks
       /\ uiTrace.performedQuery = uiTrace.valueAtFire

\* C25, as stated: at most one debounce timer is pending and every input
\* event cancels the pending one; for every burst of input events search()
\* is invoked on the engine exactly once, 150 ms after the last event, with
\* the value of the input at that moment.
C25_BurstSearchesOnce ==
  /\ debounceHolds
  /\ burstOver => uiTrace.engineCalls = 1

\* C25, amended: at most one debounce timer is pending and every input event
\* cancels the pending one; for every burst performSearch runs exactly once,
\* 150 ms after the last event, with the value of the input at that moment,
\* and invokes search() on the engine exactly once when that value has at
\* least 2 characters and not at all when it is shorter.
C25_BurstSearchesOnceWhenLongEnough ==
  /\ debounceHolds
  /\ burstOver =>
       uiTrace.engineCalls
         = IF Len(uiTrace.valueAtFire) >= MinQueryLength THEN 1 ELSE 0

\* a burst of three input events, each less than 150 ms after the previous
\* one, ended with the value 'java' and led to one search, for 'java'
C25_Witness ==
  /\ burstOver
  /\ uiTrace.inputs = 3
  /\ uiTrace.lastInputAt = 2
  /\ uiTrace.performs = 1
  /\ uiTrace.engineCalls = 1
  /\ uiTrace.performedQuery = QueryJava
  /\ results.html = "results"

\* C28: from close() until the next open(), input event or filter click
\* the results container stays empty and performSearch does not run: a
\* debounce timer an input event started before close() renders nothing
\* into the closed modal.
C28_ClosedModalStaysEmpty ==
  uiTrace.closed =>
    /\ results = EmptyResults
    /\ uiTrace.performsSinceClose = 0

(***************************************************************************)
(* Properties of askStream                                                 *)
(***************************************************************************)
\* C26: the events askStream has emitted are one 'sources' event first,
\* then one 'text' event per frame read, in arrival order and holding the
\* decoded frame, then one 'done' event once the stream has ended, and
\* nothing after it: 'done' is there exactly when the generator has
\* returned, and a generator that has read k frames has emitted k texts.
C26_StreamEventsAreSourcesTextsDone ==
  LET events == streamCall.events
      frames == streamCall.frames
      ended  == streamCall.pc = "returned"
  IN  /\ events # <<>> =>
           /\ events[1].type = "sources"
           /\ events[1].sources = streamCall.sources
      /\ streamCall.pc \in {"yieldedSources", "awaitFetch", "awaitRead",
                            "returned"} => events # <<>>
      /\ Len(events) = (IF events = <<>> THEN 0 ELSE 1) + Len(frames)
                         + (IF ended THEN 1 ELSE 0)
      /\ \A k \in 1..Len(frames) :
           /\ events[k + 1].type = "text"
           /\ events[k + 1].text = decode(frames[k])
      /\ ended => events[Len(events)].type = "done"
      /\ \A i \in 1..Len(events) :
           /\ events[i].type = "sources" => i = 1
           /\ events[i].type = "done" => (ended /\ i = Len(events))

\* a stream of two frames, the second cut inside a character, was read to
\* its end: sources, two texts and done
C26_Witness ==
  /\ streamCall.pc = "returned"
  /\ streamCall.frames = <<<<65>>, <<195>>>>
  /\ Len(streamCall.events) = 4
  /\ streamCall.events[1].sources # <<>>
  /\ streamCall.events[2].text = <<65>>
  /\ streamCall.events[3].text = <<ReplacementChar>>
  /\ streamCall.events[4].type = "done"

(***************************************************************************)
(* load() called again while an earlier call is still in flight            *)
(***************************************************************************)

\* the load() calls that ran past the guard and built the index
buildingLoads == {k \in LoadIds : loads[k].pc = "resolved" /\ ~loads[k].noop}

\* C27: however load() calls interleave on one instance, a second call made
\* while the first still awaits its fetch included, at most one fetch of the
\* data file is issued, the index is built at most once and onReady is
\* invoked at most once.  Calls made after a failed load are retries and are
\* left out.
C27_ConcurrentLoadsFetchOnce ==
  (\A k \in LoadIds : loads[k].pc # "rejected") =>
    /\ fetchCount <= 1
    /\ Cardinality(buildingLoads) <= 1
    /\ onReadyCount <= 1

(***************************************************************************)
(* The sources buildContext returns                                        *)
(***************************************************************************)

\* C29: the sources buildContext returns are exactly the chunks whose
\* content was put into the context, in order: a chunk left out because of
\* the token budget is not listed as a source.
C29_SourcesAreTheChunksInContext ==
  contextCall.pc = "done" =>
    LET ranked == contextCall.relevantChunks
        n      == Len(contextCall.result.context)
    IN  /\ Len(contextCall.result.sources) = n
        /\ \A i \in 1..n :
             /\ contextCall.result.sources[i].title = ranked[i].chunk.title
             /\ contextCall.result.sources[i].url = ranked[i].chunk.url

(***************************************************************************)
(* The addresses of the search records of one build                        *)
(***************************************************************************)

\* C30: within one index build distinct search records have distinct url
\* values: no two sections of a page get the same anchor-qualified URL and
\* no two HTML files map to the same page URL.
C30_RecordsHaveDistinctUrls ==
  \A i, j \in 1..Len(searchIndex) :
    searchIndex[i].url = searchIndex[j].url => i = j

=============================================================================
